---- MODULE Spec2Model ----
(***************************************************************************)
(* A model of the job monitor's ingestion and indexing core:               *)
(*   collector/db.py          the Record Store (DatabaseManager)           *)
(*   collector/rss_client.py  the relevance gate (_quick_relevance_check)  *)
(*   collector/scheduler.py   the cycle and analyze_pending_jobs           *)
(*   analysis/vector_store.py the VectorStore                              *)
(*   analysis/llm_client.py   the analysis call                            *)
(*   config/config_loader.py  config.yaml and its cached copy              *)
(*                                                                         *)
(* Python str values that the code concatenates, strips, parses or         *)
(* searches are sequences of one-character strings; values the code only   *)
(* stores and copies are TLA+ strings.                                     *)
(*                                                                         *)
(* Specifications:                                                         *)
(*   SpecId      generate_job_id on two (title, link) pairs                *)
(*   SpecGate    the store and _quick_relevance_check                      *)
(*   SpecFilter  _apply_time_filter                                        *)
(*   Spec        the store and the vector store, one call at a time        *)
(*   SpecDisk    the same, and the restart that loads the index files       *)
(*   SpecConc    the scheduler thread and the API thread, interleaved at   *)
(*               the statements that read or write shared state            *)
(*   SpecSeq     the same handlers, called by the API thread alone          *)
(*   SpecSys      force_fetch, analyze_pending and rebuild_index, each run *)
(*                from its first line to its return                        *)
(*   SpecForever  the same handlers called without end, under fairness     *)
(*   SpecAnalysis the same, under the fairness the analysis needs          *)
(*   SpecTwice    cycles one after the other on sources that repeat        *)
(*   SpecCfg      config.yaml under the server and the scheduler thread    *)
(*   SpecLoop     start and the scheduler thread's loop                    *)
(*   SpecContent  _fetch_full_content                                      *)
(*   SpecProvider _detect_provider                                         *)
(*   SpecSearch   search and semantic_search                               *)
(*   SpecDirect   _fetch_direct on lists of feeds                          *)
(*   SpecPoll     cycles of the Miniflux provider against a server that    *)
(*                honours the watermark                                    *)
(*   SpecLlm      SpecSeq's handlers with the analysis client's outcomes   *)
(*   SpecStop     start(), stop() and the loop threads                     *)
(***************************************************************************)
EXTENDS Integers, Sequences, FiniteSets, TLC

VARIABLES
    rows,        \* the job_entries table, in insertion order
    index,       \* VectorStore.index: the vectors, in position order
    documents,   \* VectorStore.documents
    disk,        \* vector_index.faiss and documents.json
    call,        \* Spec: the last handler called, its argument and result
    idq,         \* SpecId: two (title, link) pairs and their ids
    gate,        \* SpecGate: the last relevance check, its result and LLM calls
    tf,          \* SpecFilter: a filter call and its result
    running,     \* JobScheduler.running
    live,        \* the threads that exist
    pc,          \* SpecConc: per thread, the statement it is at
    op,          \* SpecConc: per thread, the handler it is running
    loc,         \* SpecConc: per thread, the handler's local variables
    nops,        \* SpecConc: handlers started so far
    cfg          \* config.yaml and config_loader._config

vars == <<rows, index, documents, disk, call, idq, gate, tf, running, live, pc, op, loc, nops,
          cfg>>

(***************************************************************************)
(* Bounds of the model.                                                    *)
(***************************************************************************)
MaxLen == 2          \* longest title or link of SpecId, in characters
MaxRespLen == 2      \* longest scoring response of SpecGate, in characters
MaxResults == 2      \* longest result list of SpecFilter
MaxDocs == 2         \* add_job_entries is called while the index stays this small
MaxOps == 3          \* handlers started in one behaviour of SpecConc

(***************************************************************************)
(* Sequences.                                                              *)
(***************************************************************************)
SeqsUpTo(S, n) == UNION {[1..k -> S] : k \in 0..n}

RECURSIVE Filter(_, _)
Filter(s, keep) ==
    IF s = <<>> THEN <<>>
    ELSE (IF Head(s) \in keep THEN <<Head(s)>> ELSE <<>>) \o Filter(Tail(s), keep)

Range(s) == {s[i] : i \in 1..Len(s)}

(***************************************************************************)
(* collector/db.py                                                         *)
(***************************************************************************)
\* hashlib.md5(...).hexdigest(), taken as injective on its input: the digest
\* of a byte string is represented by the byte string, tagged.
md5_hexdigest(bytes) == <<"md5", bytes>>

\* content = f"{title}|{link}".encode('utf-8')
generate_job_id(title, link) == md5_hexdigest(title \o <<"|">> \o link)

\* entry_data.get('relevance_score', 0)
get_relevance_score(entry_data) ==
    IF "relevance_score" \in DOMAIN entry_data THEN entry_data.relevance_score ELSE 0

\* JobEntry(...): analyzed and analysis_result take the column defaults,
\* created_at the time of the insertion (default=datetime.utcnow), of which
\* the model keeps only that it was set then.
JobEntry(job_id, entry_data) ==
    [id |-> job_id,
     title |-> entry_data.title,
     link |-> entry_data.link,
     description |-> entry_data.description,
     content |-> entry_data.content,
     published |-> entry_data.published,
     source |-> entry_data.source,
     category |-> entry_data.category,
     created_at |-> "utcnow",
     analyzed |-> FALSE,
     analysis_result |-> "None",
     relevance_score |-> get_relevance_score(entry_data)]

\* session.query(JobEntry).filter_by(id=job_id).first() is not None
exists_id(table, job_id) == \E i \in 1..Len(table) : table[i].id = job_id

\* session.query(JobEntry).filter_by(id=job_id).first(): its position, 0 for None
first_by_id(table, job_id) ==
    IF exists_id(table, job_id)
    THEN CHOOSE i \in 1..Len(table) :
            /\ table[i].id = job_id
            /\ \A j \in 1..(i - 1) : table[j].id # job_id
    ELSE 0

\* session.add(job_entry); session.commit(). id is the primary key: the INSERT
\* of an id the table holds raises IntegrityError and the transaction is rolled
\* back. fault: the commit fails for a reason of the database (locked, I/O).
insert_commit(table, job_entry, fault) ==
    IF fault THEN [rows |-> table, result |-> "OperationalError"]
    ELSE IF exists_id(table, job_entry.id)
         THEN [rows |-> table, result |-> "IntegrityError"]
         ELSE [rows |-> Append(table, job_entry), result |-> "True"]

\* A bug add_job_entry could have: no existence check before the insert.
add_job_entry_unchecked(table, entry_data, fault) ==
    insert_commit(table,
                  JobEntry(generate_job_id(entry_data.title, entry_data.link), entry_data),
                  fault)

\* A bug add_job_entry could have: True is returned for a record that exists.
add_job_entry_reports_true(table, entry_data, fault) ==
    LET job_id == generate_job_id(entry_data.title, entry_data.link) IN
    IF exists_id(table, job_id)
    THEN [rows |-> table, result |-> "True"]
    ELSE insert_commit(table, JobEntry(job_id, entry_data), fault)

\* add_job_entry, run by one caller from its first line to its return.
add_job_entry(table, entry_data, fault) ==
    LET job_id == generate_job_id(entry_data.title, entry_data.link) IN
    IF exists_id(table, job_id)
    THEN [rows |-> table, result |-> "False"]
    ELSE insert_commit(table, JobEntry(job_id, entry_data), fault)

\* get_unanalyzed_entries: the positions of the rows with analyzed = False
get_unanalyzed_entries(table) ==
    Filter([i \in 1..Len(table) |-> i], {i \in 1..Len(table) : ~table[i].analyzed})

\* A bug update_analysis_result could have: the result stored, the flag not set.
update_analysis_result_keeps_flag(table, job_id, analysis_result, fault) ==
    LET i == first_by_id(table, job_id) IN
    IF i = 0 THEN [rows |-> table, result |-> "None"]
    ELSE IF fault THEN [rows |-> table, result |-> "OperationalError"]
    ELSE [rows |-> [table EXCEPT ![i].analysis_result = analysis_result],
          result |-> "None"]

\* update_analysis_result: no row with that id is no error and no change.
\* A bug update_analysis_result could have: the record replaced by a new
\* one that carries the analysis, session.merge(JobEntry(id=..., ...)).
update_analysis_result_merge(table, job_id, analysis_result, fault) ==
    LET i == first_by_id(table, job_id) IN
    IF i = 0 THEN [rows |-> table, result |-> "None"]
    ELSE IF fault THEN [rows |-> table, result |-> "OperationalError"]
    ELSE [rows |-> [table EXCEPT ![i].analysis_result = analysis_result,
                                 ![i].analyzed = TRUE,
                                 ![i].description = "None",
                                 ![i].content = "None"],
          result |-> "None"]

update_analysis_result(table, job_id, analysis_result, fault) ==
    LET i == first_by_id(table, job_id) IN
    IF i = 0 THEN [rows |-> table, result |-> "None"]
    ELSE IF fault THEN [rows |-> table, result |-> "OperationalError"]
    ELSE [rows |-> [table EXCEPT ![i].analysis_result = analysis_result,
                                 ![i].analyzed = TRUE],
          result |-> "None"]

(***************************************************************************)
(* The values every specification starts the other parts of the state at.  *)
(***************************************************************************)
Threads == {"api", "bg"}

NoCall == [op |-> "none"]
NoLoc == [entries |-> <<>>, i |-> 0, unanalyzed |-> <<>>, analyzed_jobs |-> <<>>,
          added |-> "none"]

StoreIdle == rows = <<>>
\* A file of the vector store: absent, written with data, or cut short (not
\* parseable).
NoFile == [state |-> "absent", data |-> <<>>]
File(data) == [state |-> "written", data |-> data]
CutFile == [state |-> "truncated", data |-> <<>>]
NoFiles == [index |-> NoFile, documents |-> NoFile]
IndexIdle == index = <<>> /\ documents = <<>> /\ disk = NoFiles
CallIdle == call = NoCall
IdIdle == idq = NoCall
GateIdle == gate = NoCall
FilterIdle == tf = NoCall
ThreadsIdle ==
    /\ running = FALSE
    /\ live = {}
    /\ pc = [t \in Threads |-> "idle"]
    /\ op = [t \in Threads |-> "none"]
    /\ loc = [t \in Threads |-> NoLoc]
    /\ nops = 0

\* None, where a timestamp can stand: config.get('last_miniflux_fetch', None)
NoneStamp == 0 - 1
\* config.yaml with no last_miniflux_fetch; keywords is the version of the
\* keyword list. Nothing is cached: _config is None (loaded = FALSE).
EmptyConfig == [last_miniflux_fetch |-> NoneStamp, keywords |-> 0]
NoConfig == [file |-> EmptyConfig, cache |-> EmptyConfig, loaded |-> FALSE]
ConfigIdle == cfg = NoConfig

indexVars == <<index, documents, disk>>
threadVars == <<running, live, pc, op, loc, nops>>

(***************************************************************************)
(* SpecId: generate_job_id applied to two (title, link) pairs.             *)
(***************************************************************************)
IdAlphabet == {"a", "|"}
IdStrings == SeqsUpTo(IdAlphabet, MaxLen)

InitId ==
    /\ idq \in [op : {"input"}, t1 : IdStrings, l1 : IdStrings,
                t2 : IdStrings, l2 : IdStrings]
    /\ StoreIdle /\ IndexIdle /\ CallIdle /\ GateIdle /\ FilterIdle /\ ThreadsIdle
    /\ ConfigIdle

GenerateJobIds ==
    /\ idq.op = "input"
    /\ idq' = [op |-> "generate_job_id",
               t1 |-> idq.t1, l1 |-> idq.l1, t2 |-> idq.t2, l2 |-> idq.l2,
               id1 |-> generate_job_id(idq.t1, idq.l1),
               id2 |-> generate_job_id(idq.t2, idq.l2)]
    /\ UNCHANGED <<rows, indexVars, call, gate, tf, threadVars, cfg>>

NextId == GenerateJobIds

SpecId == InitId /\ [][NextId]_vars

\* C4: generate_job_id gives two (title, link) pairs the same id if and only
\* if the pairs are equal, over strings that may hold the separator '|'.
C4_IdOneToOne ==
    idq.op = "generate_job_id" =>
        ((idq.id1 = idq.id2) <=> (idq.t1 = idq.t2 /\ idq.l1 = idq.l2))

(***************************************************************************)
(* collector/rss_client.py: _quick_relevance_check                         *)
(***************************************************************************)
RelevanceThreshold == 6
FailOpenScore == 6

Digits == {"0", "1", "2", "3", "4", "5", "6", "7", "8", "9"}
DigitValue(c) ==
    CASE c = "0" -> 0 [] c = "1" -> 1 [] c = "2" -> 2 [] c = "3" -> 3 [] c = "4" -> 4
      [] c = "5" -> 5 [] c = "6" -> 6 [] c = "7" -> 7 [] c = "8" -> 8 [] c = "9" -> 9

IsSpace(c) == c \in {" ", "\n", "\t"}

RECURSIVE lstrip(_)
lstrip(s) == IF s # <<>> /\ IsSpace(Head(s)) THEN lstrip(Tail(s)) ELSE s

RECURSIVE rstrip(_)
rstrip(s) ==
    IF s # <<>> /\ IsSpace(s[Len(s)]) THEN rstrip(SubSeq(s, 1, Len(s) - 1)) ELSE s

\* str.strip()
strip(s) == rstrip(lstrip(s))

RECURSIVE DecimalValue(_)
DecimalValue(ds) ==
    IF ds = <<>> THEN 0
    ELSE 10 * DecimalValue(SubSeq(ds, 1, Len(ds) - 1)) + DigitValue(ds[Len(ds)])

\* int(text) on a stripped str: an optional sign, then one or more digits;
\* anything else raises ValueError (ok = FALSE). Underscores between digits
\* and non-ASCII digits, which int() also takes, are outside the alphabet.
py_int(text) ==
    LET signed == text # <<>> /\ Head(text) \in {"-", "+"}
        body == IF signed THEN Tail(text) ELSE text
    IN  IF body = <<>> \/ \E i \in 1..Len(body) : body[i] \notin Digits
        THEN [ok |-> FALSE, value |-> 0]
        ELSE [ok |-> TRUE,
              value |-> IF signed /\ Head(text) = "-"
                        THEN 0 - DecimalValue(body) ELSE DecimalValue(body)]

\* A bug the scoring call could have: an unusable answer rejects the posting.
score_with_llm_fail_closed(llm) ==
    LET parsed == IF llm.kind = "raise" THEN [ok |-> FALSE, value |-> 0]
                  ELSE py_int(strip(llm.text)) IN
    IF parsed.ok
    THEN [relevant |-> parsed.value >= RelevanceThreshold, score |-> parsed.value,
          llm_calls |-> 1]
    ELSE [relevant |-> FALSE, score |-> 0, llm_calls |-> 1]

\* The scoring call, given what llm_client._call_llm did: it raised, or it
\* returned text (an error string of llm_client is text).
\*   try: score = _call_llm(prompt); return int(score.strip()) >= 6, int(score.strip())
\*   except: return True, 6
score_with_llm(llm) ==
    IF llm.kind = "raise"
    THEN [relevant |-> TRUE, score |-> FailOpenScore, llm_calls |-> 1]
    ELSE LET parsed == py_int(strip(llm.text)) IN
         IF parsed.ok
         THEN [relevant |-> parsed.value >= RelevanceThreshold, score |-> parsed.value,
               llm_calls |-> 1]
         ELSE [relevant |-> TRUE, score |-> FailOpenScore, llm_calls |-> 1]

\* A bug the gate could have: the cached verdict uses > where the scored one uses >=.
quick_relevance_check_strict(table, title, link, llm) ==
    LET i == first_by_id(table, generate_job_id(title, link)) IN
    IF link # <<>> /\ i # 0 /\ table[i].relevance_score > 0
    THEN [relevant |-> table[i].relevance_score > RelevanceThreshold,
          score |-> table[i].relevance_score, llm_calls |-> 0]
    ELSE score_with_llm(llm)

\* _quick_relevance_check(title, description, link): the cache is read only
\* "if link" (a non-empty str); description only enters the prompt.
quick_relevance_check(table, title, link, llm) ==
    LET i == first_by_id(table, generate_job_id(title, link)) IN
    IF link # <<>> /\ i # 0 /\ table[i].relevance_score > 0
    THEN [relevant |-> table[i].relevance_score >= RelevanceThreshold,
          score |-> table[i].relevance_score, llm_calls |-> 0]
    ELSE score_with_llm(llm)

(***************************************************************************)
(* SpecGate: records enter the store with the relevance_score their        *)
(* entry_data carries, and the gate is asked about a (title, link).        *)
(***************************************************************************)
GateTitles == {<<"a">>}
GateLinks == {<<>>, <<"b">>}
GateScores == {3, 6}

GateEntry(t, l) ==
    [title |-> t, link |-> l, description |-> "d", content |-> "",
     published |-> "p", source |-> "s", category |-> "general"]

GateEntries ==
    {GateEntry(t, l) : t \in GateTitles, l \in GateLinks}
    \cup {GateEntry(t, l) @@ [relevance_score |-> r] :
            t \in GateTitles, l \in GateLinks, r \in GateScores}

RespAlphabet == {"1", "6", "-", " ", "x"}
\* f"Error calling Ollama: {e}", shortened after the colon
ErrorText == <<"E", "r", "r", "o", "r", " ", "c", "a", "l", "l", "i", "n", "g", " ",
               "O", "l", "l", "a", "m", "a", ":", " ", "e">>
LlmOutcomes ==
    {[kind |-> "raise", text |-> <<>>]}
    \cup {[kind |-> "text", text |-> r] : r \in SeqsUpTo(RespAlphabet, MaxRespLen)}
    \cup {[kind |-> "text", text |-> ErrorText]}

InitGate ==
    /\ StoreIdle /\ GateIdle
    /\ IndexIdle /\ CallIdle /\ IdIdle /\ FilterIdle /\ ThreadsIdle /\ ConfigIdle

GateAddJobEntry(e) ==
    /\ rows' = add_job_entry(rows, e, FALSE).rows
    /\ gate' = NoCall
    /\ UNCHANGED <<indexVars, call, idq, tf, threadVars, cfg>>

GateCheck(title, link, llm) ==
    /\ gate' = [op |-> "check", title |-> title, link |-> link, llm |-> llm,
                result |-> quick_relevance_check(rows, title, link, llm)]
    /\ UNCHANGED <<rows, indexVars, call, idq, tf, threadVars, cfg>>

NextGate ==
    \/ \E e \in GateEntries : GateAddJobEntry(e)
    \/ \E t \in GateTitles, l \in GateLinks, llm \in LlmOutcomes : GateCheck(t, l, llm)

SpecGate == InitGate /\ [][NextGate]_vars

\* The record the store holds for the (title, link) of the last check: its
\* position in rows, 0 when there is none.
GateCached == first_by_id(rows, generate_job_id(gate.title, gate.link))
GateHasCachedScore == GateCached # 0 /\ rows[GateCached].relevance_score > 0

\* C5 as claimed: for every title and link, the empty link included, a stored
\* record with relevance_score > 0 means the check calls no scoring service
\* and returns (relevance_score >= 6, relevance_score).
C5_CacheHitAnyLink ==
    (gate.op = "check" /\ GateHasCachedScore) =>
        /\ gate.result.llm_calls = 0
        /\ gate.result.score = rows[GateCached].relevance_score
        /\ gate.result.relevant = (rows[GateCached].relevance_score >= 6)

\* C5 as amended: the same for every title and every non-empty link; the
\* result is a function of the stored score, so repeated checks agree.
C5_CacheHit ==
    (gate.op = "check" /\ gate.link # <<>> /\ GateHasCachedScore) =>
        /\ gate.result.llm_calls = 0
        /\ gate.result.score = rows[GateCached].relevance_score
        /\ gate.result.relevant = (rows[GateCached].relevance_score >= 6)

C5_Witness ==
    /\ gate.op = "check" /\ gate.link # <<>> /\ GateHasCachedScore
    /\ rows[GateCached].relevance_score = 6
    /\ gate.llm.kind = "text" /\ gate.llm.text = <<"1">>

\* What "parses as an integer" means, stated on the text and not by running
\* the parser: blanks, an optional sign, one or more digits, blanks.
IsIntegerText(text) ==
    \E a \in 1..Len(text), b \in 1..Len(text) :
        /\ a <= b
        /\ \A i \in 1..(a - 1) : IsSpace(text[i])
        /\ \A i \in (b + 1)..Len(text) : IsSpace(text[i])
        /\ \/ \A i \in a..b : text[i] \in Digits
           \/ a < b /\ text[a] \in {"-", "+"} /\ \A i \in (a + 1)..b : text[i] \in Digits

\* C6: with no cached score, a scoring call that raises, returns an error
\* string or returns text that is no integer gives exactly (True, 6).
C6_FailOpen ==
    (/\ gate.op = "check"
     /\ ~GateHasCachedScore
     /\ (gate.llm.kind = "raise" \/ ~IsIntegerText(gate.llm.text))) =>
        (gate.result.relevant = TRUE /\ gate.result.score = 6)

C6_Witness ==
    /\ gate.op = "check" /\ ~GateHasCachedScore
    /\ gate.llm.kind = "text" /\ gate.llm.text = ErrorText
    /\ gate.result.relevant = TRUE /\ gate.result.score = 6

\* C7: whatever the scoring service returns, the score the check returns is
\* an integer in 0..10.
C7_ScoreInRange ==
    gate.op = "check" => gate.result.score \in 0..10

(***************************************************************************)
(* analysis/vector_store.py: _apply_time_filter                            *)
(*                                                                         *)
(* Time is counted in ticks, TicksPerDay to the day. A published value is  *)
(* what dateutil.parser.parse makes of it: nothing (it raises: the empty   *)
(* string, text that holds no date, None) or a point in time. The offset   *)
(* of a parsed date is dropped by replace(tzinfo=None), so a point in time *)
(* is the wall-clock reading the comparison uses.                          *)
(***************************************************************************)
TicksPerDay == 2
Days3Months == 90
Days6Months == 180
Days1Year == 365

\* datetime.now()
Now == 400 * TicksPerDay

\* needle in hay, on str
Contains(hay, needle) ==
    \E k \in 0..(Len(hay) - Len(needle)) :
        \A j \in 1..Len(needle) : hay[k + j] = needle[j]

Str3Months == <<"3", " ", "m", "o", "n", "t", "h", "s">>
Str6Months == <<"6", " ", "m", "o", "n", "t", "h", "s">>
Str1Year == <<"1", " ", "y", "e", "a", "r">>

\* dateutil.parser.parse(result.get('published', ''))
dateutil_parse(published) ==
    IF published.kind = "date" THEN [ok |-> TRUE, at |-> published.at]
    ELSE [ok |-> FALSE, at |-> 0]

RECURSIVE filter_loop(_, _)
\* for result in results: try: ... if published_date >= cutoff: append
\*                        except: append
filter_loop(results, cutoff) ==
    IF results = <<>> THEN <<>>
    ELSE LET d == dateutil_parse(Head(results).published) IN
         (IF ~d.ok \/ d.at >= cutoff THEN <<Head(results)>> ELSE <<>>)
         \o filter_loop(Tail(results), cutoff)

\* A bug the filter could have: the 6-month and 1-year cutoffs exchanged.
apply_time_filter_swapped(results, time_filter) ==
    IF Contains(time_filter, Str3Months)
    THEN filter_loop(results, Now - Days3Months * TicksPerDay)
    ELSE IF Contains(time_filter, Str6Months)
    THEN filter_loop(results, Now - Days1Year * TicksPerDay)
    ELSE IF Contains(time_filter, Str1Year)
    THEN filter_loop(results, Now - Days6Months * TicksPerDay)
    ELSE results

\* _apply_time_filter(results, time_filter)
apply_time_filter(results, time_filter) ==
    IF Contains(time_filter, Str3Months)
    THEN filter_loop(results, Now - Days3Months * TicksPerDay)
    ELSE IF Contains(time_filter, Str6Months)
    THEN filter_loop(results, Now - Days6Months * TicksPerDay)
    ELSE IF Contains(time_filter, Str1Year)
    THEN filter_loop(results, Now - Days1Year * TicksPerDay)
    ELSE results

(***************************************************************************)
(* SpecFilter: a list of search results and a filter label go in, the      *)
(* filtered list comes out.                                                *)
(***************************************************************************)
\* The dashboard's labels, and labels it does not offer.
LabelPast3Months == <<"P", "a", "s", "t", " ">> \o Str3Months
LabelPast6Months == <<"P", "a", "s", "t", " ">> \o Str6Months
LabelPast1Year == <<"P", "a", "s", "t", " ">> \o Str1Year
LabelAllTime == <<"A", "l", "l", " ", "t", "i", "m", "e">>
Label3Month == <<"3", " ", "m", "o", "n", "t", "h">>
FilterLabels ==
    {LabelPast3Months, LabelPast6Months, LabelPast1Year, Str3Months,
     LabelAllTime, Label3Month, <<>>}

DaysAgo(d) == Now - d * TicksPerDay
PublishedTimes ==
    {Now + 1, Now,
     DaysAgo(89), DaysAgo(Days3Months), DaysAgo(Days3Months) - 1, DaysAgo(91),
     DaysAgo(Days6Months), DaysAgo(Days6Months) - 1,
     DaysAgo(Days1Year), DaysAgo(Days1Year) - 1}
PublishedValues ==
    {[kind |-> k, at |-> 0] : k \in {"empty", "no date", "None"}}
    \cup {[kind |-> "date", at |-> t] : t \in PublishedTimes}
\* A search result; id tells two results with one published value apart.
FilterResults == {[id |-> "r", published |-> p] : p \in PublishedValues}

InitFilter ==
    /\ tf \in [op : {"input"}, results : SeqsUpTo(FilterResults, MaxResults),
               time_filter : FilterLabels]
    /\ StoreIdle /\ IndexIdle /\ CallIdle /\ IdIdle /\ GateIdle /\ ThreadsIdle
    /\ ConfigIdle

ApplyTimeFilter ==
    /\ tf.op = "input"
    /\ tf' = [op |-> "apply_time_filter", results |-> tf.results,
              time_filter |-> tf.time_filter,
              filtered |-> apply_time_filter(tf.results, tf.time_filter)]
    /\ UNCHANGED <<rows, indexVars, call, idq, gate, threadVars, cfg>>

NextFilter == ApplyTimeFilter

SpecFilter == InitFilter /\ [][NextFilter]_vars

\* The cutoff of a label, in days: 0 for a label that is not recognized.
LabelDays(label) ==
    CASE label \in {LabelPast3Months, Str3Months} -> 90
      [] label = LabelPast6Months -> 180
      [] label = LabelPast1Year -> 365
      [] OTHER -> 0

\* An unparseable published value, or an age within d days.
KeptUnder(result, d) ==
    \/ result.published.kind # "date"
    \/ Now - result.published.at <= d * TicksPerDay

\* The results among rs that satisfy KeptUnder, in the order of rs.
RECURSIVE KeptOf(_, _)
KeptOf(rs, d) ==
    IF rs = <<>> THEN <<>>
    ELSE (IF KeptUnder(Head(rs), d) THEN <<Head(rs)>> ELSE <<>>) \o KeptOf(Tail(rs), d)

\* C10: under a recognized label a result is kept if and only if its
\* published value is unparseable or its age is within the label's 90, 180
\* or 365 days (so 89 days is kept and 91 days dropped under 3 months); an
\* unrecognized label keeps every result.
C10_TimeFilter ==
    tf.op = "apply_time_filter" =>
        LET d == LabelDays(tf.time_filter) IN
        /\ d = 0 => tf.filtered = tf.results
        /\ d # 0 => tf.filtered = KeptOf(tf.results, d)
        /\ d = 90 =>
            \A i \in 1..Len(tf.results) :
                LET p == tf.results[i].published IN
                /\ (p.kind = "date" /\ p.at = DaysAgo(89)) => tf.results[i] \in Range(tf.filtered)
                /\ (p.kind = "date" /\ p.at = DaysAgo(91)) => tf.results[i] \notin Range(tf.filtered)
                /\ p.kind \in {"empty", "no date", "None"} => tf.results[i] \in Range(tf.filtered)

C10_Witness ==
    /\ tf.op = "apply_time_filter"
    /\ tf.time_filter = LabelPast3Months
    /\ Len(tf.results) = 2
    /\ tf.results[1].published = [kind |-> "date", at |-> DaysAgo(91)]
    /\ tf.results[2].published = [kind |-> "empty", at |-> 0]
    /\ tf.filtered = <<tf.results[2]>>

(***************************************************************************)
(* analysis/vector_store.py: add_job_entries and _save_index               *)
(***************************************************************************)
\* embedding_model.encode(text) followed by faiss.normalize_L2: the vector of
\* a text, taken as determined by the text.
encode(text) == [unit |-> TRUE, of |-> text]

\* The dict add_job_entries builds for one job; text stands for
\* f"{job.title} {job.description} {analysis_text}".
make_doc(job) ==
    [id |-> job.id,
     title |-> job.title,
     link |-> job.link,
     source |-> job.source,
     published |-> job.published,
     text |-> <<job.title, job.description,
                IF job.analysis_result = "None" THEN "" ELSE job.analysis_result>>,
     analysis |-> job.analysis_result]

\* _save_index, called with the index and documents in memory: write_index,
\* then open(docs_path, 'w') and json.dump; any exception is caught.
\*   "saved"              both files written
\*   "write_index_raises" neither file touched
\*   "open_raises"        the index file written, documents.json as it was
\*   "dump_raises"        the index file written, documents.json truncated
SaveOutcomes == {"saved", "write_index_raises", "open_raises", "dump_raises"}
save_index(files, idx, docs, save) ==
    CASE save = "saved" -> [index |-> File(idx), documents |-> File(docs)]
      [] save = "write_index_raises" -> files
      [] save = "open_raises" -> [index |-> File(idx), documents |-> files.documents]
      [] save = "dump_raises" -> [index |-> File(idx), documents |-> CutFile]

\* What a call of add_job_entries can meet:
\*   "ok"             encode and index.add return
\*   "encode_raises"  embedding_model.encode raises
\*   "add_raises"     index.add raises (a vector of another dimension)
AddOutcomes == {"ok", "encode_raises", "add_raises"}

\* A bug add_job_entries could have: the documents extended before the
\* vectors are added, so that a failing index.add leaves them behind.
add_job_entries_extend_first(idx, docs, files, jobs, outcome, save) ==
    LET new_docs == [k \in 1..Len(jobs) |-> make_doc(jobs[k])]
        embeddings == [k \in 1..Len(jobs) |-> encode(new_docs[k].text)]
    IN  IF jobs = <<>>
        THEN [index |-> idx, documents |-> docs, disk |-> files, result |-> "None"]
        ELSE IF outcome = "encode_raises"
        THEN [index |-> idx, documents |-> docs, disk |-> files, result |-> "raise"]
        ELSE IF outcome = "add_raises"
        THEN [index |-> idx, documents |-> docs \o new_docs, disk |-> files,
              result |-> "raise"]
        ELSE [index |-> idx \o embeddings,
              documents |-> docs \o new_docs,
              disk |-> save_index(files, idx \o embeddings, docs \o new_docs, save),
              result |-> "None"]

\* add_job_entries(job_entries), run by one caller from its first line to its
\* return: nothing is changed before index.add has returned.
add_job_entries(idx, docs, files, jobs, outcome, save) ==
    LET new_docs == [k \in 1..Len(jobs) |-> make_doc(jobs[k])]
        embeddings == [k \in 1..Len(jobs) |-> encode(new_docs[k].text)]
    IN  IF jobs = <<>>
        THEN [index |-> idx, documents |-> docs, disk |-> files, result |-> "None"]
        ELSE IF outcome \in {"encode_raises", "add_raises"}
        THEN [index |-> idx, documents |-> docs, disk |-> files, result |-> "raise"]
        ELSE [index |-> idx \o embeddings,
              documents |-> docs \o new_docs,
              disk |-> save_index(files, idx \o embeddings, docs \o new_docs, save),
              result |-> "None"]

(***************************************************************************)
(* Spec: the Record Store and the VectorStore called one call at a time,   *)
(* each call running from its first line to its return.                    *)
(***************************************************************************)
Entry(t, l) ==
    [title |-> t, link |-> l, description |-> "d", content |-> "",
     published |-> "p", source |-> "s", category |-> "general"]
Entries == {Entry(<<"a">>, <<"x">>), Entry(<<"b">>, <<"x">>)}
EntryIds == {generate_job_id(e.title, e.link) : e \in Entries}
AnalysisTexts == {"analysis"}

Init ==
    /\ StoreIdle /\ IndexIdle /\ CallIdle
    /\ IdIdle /\ GateIdle /\ FilterIdle /\ ThreadsIdle /\ ConfigIdle

AddJobEntry(e, fault) ==
    LET r == add_job_entry(rows, e, fault) IN
    /\ rows' = r.rows
    /\ call' = [op |-> "add_job_entry", arg |-> <<e.title, e.link>>, result |-> r.result]
    /\ UNCHANGED <<indexVars, idq, gate, tf, threadVars, cfg>>

UpdateAnalysisResult(job_id, text, fault) ==
    LET r == update_analysis_result(rows, job_id, text, fault) IN
    /\ rows' = r.rows
    /\ call' = [op |-> "update_analysis_result", arg |-> <<job_id, text>>,
                result |-> r.result]
    /\ UNCHANGED <<indexVars, idq, gate, tf, threadVars, cfg>>

\* The jobs of a call are rows of the table, any of them in any order, at
\* most as many as the table holds.
AddJobEntries(positions, outcome, save) ==
    LET jobs == [k \in 1..Len(positions) |-> rows[positions[k]]]
        r == add_job_entries(index, documents, disk, jobs, outcome, save)
    IN  /\ Len(index) + Len(positions) <= MaxDocs
        /\ index' = r.index
        /\ documents' = r.documents
        /\ disk' = r.disk
        /\ call' = [op |-> "add_job_entries", arg |-> <<Len(jobs), outcome>>,
                    save |-> save, result |-> r.result]
        /\ UNCHANGED <<rows, idq, gate, tf, threadVars, cfg>>

Next ==
    \/ \E e \in Entries, fault \in BOOLEAN : AddJobEntry(e, fault)
    \/ \E id \in EntryIds, text \in AnalysisTexts, fault \in BOOLEAN :
            UpdateAnalysisResult(id, text, fault)
    \/ \E ps \in SeqsUpTo(1..Len(rows), Len(rows)), outcome \in AddOutcomes,
          save \in SaveOutcomes : AddJobEntries(ps, outcome, save)

Spec == Init /\ [][Next]_vars

CountId(table, job_id) == Cardinality({i \in 1..Len(table) : table[i].id = job_id})

\* C1: an add_job_entry that follows an add_job_entry of the same (title,
\* link) returns False and changes nothing; a call returns True only if the
\* identity was absent; after a call that returned, the store holds exactly
\* one record of that identity.
C1_AddTwice ==
    [][call'.op = "add_job_entry" =>
        LET id == generate_job_id(call'.arg[1], call'.arg[2]) IN
        /\ call'.result = "True" => ~exists_id(rows, id)
        /\ call'.result \in {"True", "False"} => CountId(rows', id) = 1
        /\ (/\ call.op = "add_job_entry"
            /\ call.arg = call'.arg
            /\ call.result \in {"True", "False"}) =>
                (call'.result = "False" /\ rows' = rows)
      ]_vars

C1_Witness ==
    /\ call.op = "add_job_entry"
    /\ call.result = "False"
    /\ CountId(rows, generate_job_id(call.arg[1], call.arg[2])) = 1
    /\ Len(rows) = 2

\* The vector at each index position is the vector of the text of the
\* document at that position of the list.
Aligned(idx, docs) ==
    /\ Len(idx) = Len(docs)
    /\ \A i \in 1..Len(docs) : idx[i] = encode(docs[i].text)

IsPrefix(s, t) == Len(s) <= Len(t) /\ SubSeq(t, 1, Len(s)) = s

\* C8: after every add_job_entries call, one with an empty list or one in
\* which encode or index.add raises included, index.ntotal = len(documents),
\* position i of the list describes the vector at position i, and what was
\* there before the call is still there, in place, before what the call added.
C8_IndexAligned ==
    /\ [](Aligned(index, documents))
    /\ [][IsPrefix(index, index') /\ IsPrefix(documents, documents')]_vars

C8_Witness ==
    /\ call.op = "add_job_entries"
    /\ call.arg = <<1, "add_raises">>
    /\ call.result = "raise"
    /\ Len(documents) = 1
    /\ documents[1].analysis = "analysis"

(***************************************************************************)
(* SpecDisk: calls of Spec and the restart of the process. vector_store.py *)
(* builds                                                                  *)
(* the VectorStore when it is imported, and __init__ ends with             *)
(* _load_or_create_index; the database file and the two files of the       *)
(* vector store are what a restart finds.                                  *)
(***************************************************************************)
\* A loader that reads the index file and starts the list empty.
load_or_create_index_index_only(files) ==
    IF files.index.state # "absent" /\ files.documents.state # "absent"
    THEN [index |-> files.index.data, documents |-> <<>>, result |-> "loaded"]
    ELSE [index |-> <<>>, documents |-> <<>>, result |-> "created"]

\* _load_or_create_index: both paths exist: read_index and json.load, and
\* if one of them raises, _create_new_index; else _create_new_index. The
\* sizes of what was read are not compared.
load_or_create_index(files) ==
    IF files.index.state # "absent" /\ files.documents.state # "absent"
    THEN IF files.index.state = "written" /\ files.documents.state = "written"
         THEN [index |-> files.index.data, documents |-> files.documents.data,
               result |-> "loaded"]
         ELSE [index |-> <<>>, documents |-> <<>>, result |-> "created"]
    ELSE [index |-> <<>>, documents |-> <<>>, result |-> "created"]

Restart ==
    LET loaded(r) ==
            /\ index' = r.index
            /\ documents' = r.documents
            /\ call' = [op |-> "_load_or_create_index", result |-> r.result]
    IN  /\ loaded(load_or_create_index(disk))
        /\ UNCHANGED <<rows, disk, idq, gate, tf, threadVars, cfg>>

\* The calls of Spec that the files depend on: records are inserted, and
\* add_job_entries is called with one record or with all of them.
NextDisk ==
    \/ \E e \in Entries : AddJobEntry(e, FALSE)
    \/ \E ps \in {<<i>> : i \in 1..Len(rows)} \cup {[i \in 1..Len(rows) |-> i]},
          outcome \in AddOutcomes, save \in SaveOutcomes : AddJobEntries(ps, outcome, save)
    \/ Restart

SpecDisk == Init /\ [][NextDisk]_vars

\* C26: whatever _save_index met before, _load_or_create_index leaves an
\* index whose size is the length of the document list.
C26_FilesAgree ==
    call.op = "_load_or_create_index" => Len(index) = Len(documents)

\* What a restart would find has as many vectors as documents.
FilesAgree(files) ==
    Len(load_or_create_index(files).index) = Len(load_or_create_index(files).documents)
\* A _save_index that wrote the index file and then failed to open
\* documents.json, or a process stopped between the two writes.
SplitSave(c) ==
    /\ c.op = "add_job_entries" /\ c.result = "None" /\ c.arg[1] > 0
    /\ c.save = "open_raises"

\* C26 as amended: as long as no _save_index has failed or been stopped
\* between writing the index file and writing documents.json, the two files
\* describe the same number of documents, and a _load_or_create_index
\* leaves an index whose size is the length of the loaded document list:
\* every call but such a save keeps that so.
C26_AgreeUnlessSplitSave ==
    [][(/\ FilesAgree(disk) /\ Len(index) = Len(documents)
        /\ ~SplitSave(call')) =>
            (/\ FilesAgree(disk') /\ Len(index') = Len(documents')
             /\ call'.op = "_load_or_create_index" /\ call'.result = "loaded" =>
                    (index' = disk.index.data /\ documents' = disk.documents.data))]_vars

\* A restart has loaded two vectors and two documents.
C26_Witness ==
    /\ call.op = "_load_or_create_index" /\ call.result = "loaded"
    /\ Len(index) = 2 /\ Len(documents) = 2
    /\ disk.documents = File(documents)

(***************************************************************************)
(* SpecConc: collector/scheduler.py run by two threads.                    *)
(*                                                                         *)
(* "api" is the thread of the API or dashboard: it runs start(), and the   *)
(* on-demand fetch_and_analyze_jobs and analyze_pending_jobs. "bg" is the  *)
(* thread start() creates: its loop runs the periodic                      *)
(* fetch_and_analyze_jobs. Both work on the one db_manager.session and the *)
(* one vector_store. A thread's step is a statement, or a run of           *)
(* statements, that reads or writes that shared state once; a call into    *)
(* the database or the vector store is taken as one step.                  *)
(*                                                                         *)
(* pc: "idle"; "reload" (scheduler.py 53-60); "fetch" (63); "add_check"    *)
(* (db.py 41-45); "add_commit" (db.py 47-61); "pending" (scheduler.py 82); *)
(* "analyze" (85-92, one job); "vs_add" (95-100).                          *)
(***************************************************************************)
Cycles == {"start", "force_fetch", "periodic"}
FeedOrder == <<Entry(<<"a">>, <<"x">>), Entry(<<"b">>, <<"x">>)>>
\* What a feed can return: the entries of FeedOrder, any of them, in order.
FeedContents == {Filter(FeedOrder, S) : S \in SUBSET Range(FeedOrder)}

RowOf(job_id) == rows[first_by_id(rows, job_id)]

\* _is_job_already_processed(title, link)
is_job_already_processed(table, title, link) ==
    exists_id(table, generate_job_id(title, link))

\* fetch_entries for the direct provider: the feed's entries that the store
\* does not hold; for freshrss: the feed's entries.
fetch_entries(table, provider, feed) ==
    IF provider = "direct"
    THEN Filter(feed, {e \in Range(feed) : ~is_job_already_processed(table, e.title, e.link)})
    ELSE feed

Finish(t) ==
    /\ pc' = [pc EXCEPT ![t] = "idle"]
    /\ op' = [op EXCEPT ![t] = "none"]
    /\ loc' = [loc EXCEPT ![t] = NoLoc]
    \* start(): the Thread is created after the initial fetch has returned
    /\ live' = IF op[t] = "start" THEN live \cup {"bg"} ELSE live

\* An exception that leaves analyze_pending_jobs: in a cycle the handler of
\* fetch_and_analyze_jobs catches it, on demand the API answers 500.
\* Either way the handler is over.
Raise(t) == Finish(t)

\* start(): nothing when running; else running = True and the initial fetch.
Start ==
    /\ pc["api"] = "idle" /\ nops < MaxOps
    /\ ~running
    /\ running' = TRUE
    /\ pc' = [pc EXCEPT !["api"] = "reload"]
    /\ op' = [op EXCEPT !["api"] = "start"]
    /\ nops' = nops + 1
    /\ UNCHANGED <<rows, indexVars, call, idq, gate, tf, live, loc, cfg>>

\* force_fetch, or the dashboard's "Force Fetch Now"
ForceFetch ==
    /\ pc["api"] = "idle" /\ nops < MaxOps
    /\ pc' = [pc EXCEPT !["api"] = "reload"]
    /\ op' = [op EXCEPT !["api"] = "force_fetch"]
    /\ nops' = nops + 1
    /\ UNCHANGED <<rows, indexVars, call, idq, gate, tf, running, live, loc, cfg>>

\* analyze_pending, or the dashboard's "Analyze Pending"
AnalyzePending ==
    /\ pc["api"] = "idle" /\ nops < MaxOps
    /\ pc' = [pc EXCEPT !["api"] = "pending"]
    /\ op' = [op EXCEPT !["api"] = "analyze_pending"]
    /\ nops' = nops + 1
    /\ UNCHANGED <<rows, indexVars, call, idq, gate, tf, running, live, loc, cfg>>

\* _run_scheduler: while self.running: schedule.run_pending() finds the
\* fetch job due and calls fetch_and_analyze_jobs.
Periodic ==
    /\ "bg" \in live /\ running
    /\ pc["bg"] = "idle" /\ nops < MaxOps
    /\ pc' = [pc EXCEPT !["bg"] = "reload"]
    /\ op' = [op EXCEPT !["bg"] = "periodic"]
    /\ nops' = nops + 1
    /\ UNCHANGED <<rows, indexVars, call, idq, gate, tf, running, live, loc, cfg>>

\* config_loader.reload_config(), rss_client.reload_config(), the feed sync:
\* they return, or reload_config raises (no config file) and the cycle ends.
Reload(t, ok) ==
    /\ pc[t] = "reload"
    /\ IF ok
       THEN /\ pc' = [pc EXCEPT ![t] = "fetch"]
            /\ UNCHANGED <<op, loc, live>>
       ELSE Raise(t)
    /\ UNCHANGED <<rows, indexVars, call, idq, gate, tf, running, nops, cfg>>

\* entries = self.rss_client.fetch_entries(); new_count = 0
Fetch(t, provider, feed) ==
    /\ pc[t] = "fetch"
    /\ LET entries == fetch_entries(rows, provider, feed) IN
       /\ loc' = [loc EXCEPT ![t].entries = entries, ![t].i = 1]
       /\ pc' = [pc EXCEPT ![t] = IF entries = <<>> THEN "pending" ELSE "add_check"]
    /\ UNCHANGED <<rows, indexVars, call, idq, gate, tf, running, live, op, nops, cfg>>

\* The loop of fetch_and_analyze_jobs left after its first add_job_entry.
AfterAdd_first_only(t, result) ==
    /\ loc' = [loc EXCEPT ![t].i = @ + 1, ![t].added = result]
    /\ pc' = [pc EXCEPT ![t] = "pending"]
    /\ UNCHANGED <<op, live>>

\* After add_job_entry has returned for entries[i]: the next entry, or
\* analyze_pending_jobs.
AfterAdd(t, result) ==
    /\ loc' = [loc EXCEPT ![t].i = @ + 1, ![t].added = result]
    /\ pc' = [pc EXCEPT ![t] = IF loc[t].i < Len(loc[t].entries)
                                THEN "add_check" ELSE "pending"]
    /\ UNCHANGED <<op, live>>

\* add_job_entry, db.py 41-45: the existence query; return False if found.
AddCheck(t) ==
    /\ pc[t] = "add_check"
    /\ LET e == loc[t].entries[loc[t].i] IN
       IF exists_id(rows, generate_job_id(e.title, e.link))
       THEN AfterAdd(t, "False")
       ELSE /\ pc' = [pc EXCEPT ![t] = "add_commit"]
            /\ UNCHANGED <<op, loc, live>>
    /\ UNCHANGED <<rows, indexVars, call, idq, gate, tf, running, nops, cfg>>

\* add_job_entry, db.py 47-61: JobEntry(...), session.add, session.commit,
\* return True; an exception of the commit leaves through the cycle's handler.
AddCommit(t, fault) ==
    /\ pc[t] = "add_commit"
    /\ LET e == loc[t].entries[loc[t].i]
           r == insert_commit(rows, JobEntry(generate_job_id(e.title, e.link), e), fault)
       IN  /\ rows' = r.rows
           /\ IF r.result = "True"
              THEN AfterAdd(t, "True")
              ELSE /\ pc' = [pc EXCEPT ![t] = "raised"]
                   /\ loc' = [loc EXCEPT ![t].added = r.result]
                   /\ UNCHANGED <<op, live>>
    /\ UNCHANGED <<indexVars, call, idq, gate, tf, running, nops, cfg>>

\* except Exception as e: print(...) of fetch_and_analyze_jobs
Caught(t) ==
    /\ pc[t] = "raised"
    /\ Raise(t)
    /\ UNCHANGED <<rows, indexVars, call, idq, gate, tf, running, nops, cfg>>

\* unanalyzed = db_manager.get_unanalyzed_entries(); analyzed_jobs = []
Pending(t) ==
    /\ pc[t] = "pending"
    /\ LET unanalyzed == [k \in 1..Len(get_unanalyzed_entries(rows)) |->
                              rows[get_unanalyzed_entries(rows)[k]].id] IN
       /\ loc' = [loc EXCEPT ![t].unanalyzed = unanalyzed, ![t].analyzed_jobs = <<>>,
                             ![t].i = 1]
       /\ pc' = [pc EXCEPT ![t] = IF unanalyzed = <<>> THEN "vs_add" ELSE "analyze"]
    /\ UNCHANGED <<rows, indexVars, call, idq, gate, tf, running, live, op, nops, cfg>>

\* One turn of the loop of analyze_pending_jobs: analyze_job_posting(job),
\* update_analysis_result(job.id, analysis), analyzed_jobs.append(job).
\*   "ok"      both return
\*   "llm"     analyze_job_posting raises: caught, next job
\*   "update"  the commit of update_analysis_result raises: caught, next job
AnalyzeOutcomes == {"ok", "llm", "update"}
\* The loop without its try: a failing job ends analyze_pending_jobs.
Analyze_no_try(t, outcome, text) ==
    /\ pc[t] = "analyze"
    /\ LET job_id == loc[t].unanalyzed[loc[t].i]
           r == IF outcome = "llm" THEN [rows |-> rows, result |-> "raise"]
                ELSE update_analysis_result(rows, job_id, text, outcome = "update")
       IN  /\ rows' = r.rows
           /\ IF r.result = "None"
              THEN /\ loc' = [loc EXCEPT ![t].i = @ + 1,
                                         ![t].analyzed_jobs = Append(@, job_id)]
                   /\ pc' = [pc EXCEPT ![t] = IF loc[t].i < Len(loc[t].unanalyzed)
                                               THEN "analyze" ELSE "vs_add"]
                   /\ UNCHANGED <<op, live>>
              ELSE Raise(t)
    /\ UNCHANGED <<indexVars, call, idq, gate, tf, running, nops, cfg>>

\* The loop with the results held back: nothing is committed in a turn.
Analyze_unsaved(t, outcome, text) ==
    /\ pc[t] = "analyze"
    /\ loc' = [loc EXCEPT ![t].i = @ + 1,
                          ![t].analyzed_jobs =
                             IF outcome = "ok" THEN Append(@, loc[t].unanalyzed[loc[t].i])
                             ELSE @]
    /\ pc' = [pc EXCEPT ![t] = IF loc[t].i < Len(loc[t].unanalyzed)
                                THEN "analyze" ELSE "vs_add"]
    /\ UNCHANGED <<rows, indexVars, call, idq, gate, tf, running, live, op, nops, cfg>>

Analyze(t, outcome, text) ==
    /\ pc[t] = "analyze"
    /\ LET job_id == loc[t].unanalyzed[loc[t].i]
           r == IF outcome = "llm" THEN [rows |-> rows, result |-> "raise"]
                ELSE update_analysis_result(rows, job_id, text, outcome = "update")
       IN  /\ rows' = r.rows
           /\ loc' = [loc EXCEPT ![t].i = @ + 1,
                                 ![t].analyzed_jobs =
                                    IF r.result = "None" THEN Append(@, job_id) ELSE @]
           /\ pc' = [pc EXCEPT ![t] = IF loc[t].i < Len(loc[t].unanalyzed)
                                       THEN "analyze" ELSE "vs_add"]
    /\ UNCHANGED <<indexVars, call, idq, gate, tf, running, live, op, nops, cfg>>

\* if analyzed_jobs: try: vector_store.add_job_entries(analyzed_jobs)
\*                   except Exception: print(...)
\* The jobs are the session's objects: they show the rows as they are now.
VsAdd(t, outcome, save) ==
    /\ pc[t] = "vs_add"
    /\ LET jobs == [k \in 1..Len(loc[t].analyzed_jobs) |-> RowOf(loc[t].analyzed_jobs[k])]
           r == add_job_entries(index, documents, disk, jobs, outcome, save)
       IN  /\ index' = r.index
           /\ documents' = r.documents
           /\ disk' = r.disk
    /\ Finish(t)
    /\ UNCHANGED <<rows, call, idq, gate, tf, running, nops, cfg>>

InitConc ==
    /\ StoreIdle /\ IndexIdle /\ ThreadsIdle
    /\ CallIdle /\ IdIdle /\ GateIdle /\ FilterIdle /\ ConfigIdle

NextConc ==
    \/ Start
    \/ ForceFetch
    \/ AnalyzePending
    \/ Periodic
    \/ \E t \in Threads :
        \/ \E ok \in BOOLEAN : Reload(t, ok)
        \/ \E provider \in {"direct", "freshrss"}, feed \in FeedContents :
                Fetch(t, provider, feed)
        \/ AddCheck(t)
        \/ \E fault \in BOOLEAN : AddCommit(t, fault)
        \/ Caught(t)
        \/ Pending(t)
        \/ \E outcome \in AnalyzeOutcomes, text \in AnalysisTexts : Analyze(t, outcome, text)
        \/ \E outcome \in AddOutcomes, save \in SaveOutcomes : VsAdd(t, outcome, save)

SpecConc == InitConc /\ [][NextConc]_vars

InCycle(t) == op[t] \in Cycles /\ pc[t] # "idle"
AddingId(t) ==
    generate_job_id(loc[t].entries[loc[t].i].title, loc[t].entries[loc[t].i].link)

\* C2: two concurrent add_job_entry calls with one identity behave as if
\* each ran its existence check and its insert in one step: the store never
\* holds two records of an identity, a caller that found the identity absent
\* still finds it absent when it inserts, and no call ends in the database's
\* refusal of a second insert.
C2_AtomicCheckAndInsert ==
    /\ \A id \in EntryIds : CountId(rows, id) <= 1
    /\ \A t \in Threads : pc[t] = "add_commit" => ~exists_id(rows, AddingId(t))
    /\ \A t \in Threads : loc[t].added # "IntegrityError"

\* C3: no two executions of fetch_and_analyze_jobs are in progress at once.
C3_OneCycleAtATime ==
    ~(InCycle("api") /\ InCycle("bg"))

\* C9: no posting id appears more than once in the document list.
C9_OneDocumentPerPosting ==
    \A i \in 1..Len(documents), j \in 1..Len(documents) :
        documents[i].id = documents[j].id => i = j

\* The positions of a cycle, in the order of the statements of
\* fetch_and_analyze_jobs and analyze_pending_jobs.
Adding == {"add_check", "add_commit"}
CycleStep(t) ==
    /\ pc'[t] = "reload" => pc[t] \in {"idle", "reload"}
    /\ pc'[t] = "fetch" => pc[t] \in {"reload", "fetch"}
    /\ pc'[t] \in Adding => pc[t] \in {"fetch"} \cup Adding
    /\ pc'[t] = "raised" => pc[t] \in Adding \cup {"raised"}
    /\ (pc'[t] = "pending" /\ pc[t] # "pending") =>
          /\ pc[t] \in {"fetch"} \cup Adding
          /\ loc'[t].i = Len(loc'[t].entries) + 1
    /\ pc'[t] = "analyze" => pc[t] \in {"pending", "analyze"}
    /\ (pc'[t] = "vs_add" /\ pc[t] # "vs_add") =>
          /\ pc[t] \in {"pending", "analyze"}
          /\ loc'[t].i = Len(loc'[t].unanalyzed) + 1

\* C21: within one cycle the configuration is reloaded before the provider
\* fetch, the fetch has returned before any add_job_entry, add_job_entry has
\* been attempted for every candidate before analyze_pending_jobs starts, and
\* the VectorStore changes only in the step that follows the loop over all
\* pending records; a record is inserted only by a cycle that is adding.
C21_CycleOrder ==
    [][/\ \A t \in Threads : op[t] \in Cycles \/ op'[t] \in Cycles => CycleStep(t)
       /\ Len(rows') > Len(rows) => \E t \in Threads : pc[t] = "add_commit"
       /\ documents' # documents =>
             \E t \in Threads : /\ pc[t] = "vs_add" /\ pc'[t] = "idle"
                                 /\ loc[t].i = Len(loc[t].unanalyzed) + 1]_vars

\* A cycle that fetched two candidates and analyzed a record is about to
\* add to the VectorStore.
C21_Witness ==
    \E t \in Threads :
        /\ op[t] \in Cycles /\ pc[t] = "vs_add"
        /\ Len(loc[t].entries) = 2 /\ Len(loc[t].analyzed_jobs) > 0

\* C31: a failure of add_job_entry for one candidate stays at that
\* candidate: from the insertion of a candidate the cycle goes on to the next
\* candidate or, after the last, to analyze_pending_jobs, and a cycle that
\* has fetched ends only after the VectorStore step.
C31_InsertFailureAbsorbed ==
    [][\A t \in Threads :
          /\ (op[t] \in Cycles /\ pc[t] \in Adding) =>
                pc'[t] \in Adding \cup {"pending"}
          /\ (op[t] \in Cycles /\ pc[t] \notin {"idle", "reload", "fetch"}
              /\ pc'[t] = "idle") => pc[t] = "vs_add"]_vars

\* C24: whatever the interleaving of cycles and on-demand passes, a posting's
\* analysis is stored at most once, that is only while the posting is still
\* analyzed = false, and a record that is analyzed = true stays so.
C24_AnalyzedOnce ==
    [][/\ \A t \in Threads :
            (pc[t] = "analyze" /\ Len(loc'[t].analyzed_jobs) > Len(loc[t].analyzed_jobs))
                => ~RowOf(loc[t].unanalyzed[loc[t].i]).analyzed
       /\ \A i \in 1..Len(rows) : rows[i].analyzed => rows'[i].analyzed]_vars

(***************************************************************************)
(* SpecSeq: the handlers of SpecConc called one after the other by the API *)
(* thread alone, the scheduler thread not started. Every state of a pass   *)
(* of analyze_pending_jobs is a point the process can stop at: rows is     *)
(* what the database file holds then.                                      *)
(***************************************************************************)
NextSeq ==
    \/ ForceFetch
    \/ AnalyzePending
    \/ \E ok \in BOOLEAN : Reload("api", ok)
    \/ \E provider \in {"direct", "freshrss"}, feed \in FeedContents :
            Fetch("api", provider, feed)
    \/ AddCheck("api")
    \/ \E fault \in BOOLEAN : AddCommit("api", fault)
    \/ Caught("api")
    \/ Pending("api")
    \/ \E outcome \in AnalyzeOutcomes, text \in AnalysisTexts : Analyze("api", outcome, text)
    \/ \E outcome \in AddOutcomes, save \in SaveOutcomes : VsAdd("api", outcome, save)

SpecSeq == InitConc /\ [][NextSeq]_vars

\* The pending records of the pass the API thread is in: those its loop
\* has been through, and those still to come.
PassDone == SubSeq(loc["api"].unanalyzed, 1, loc["api"].i - 1)
PassLeft == SubSeq(loc["api"].unanalyzed, loc["api"].i, Len(loc["api"].unanalyzed))
InPass == pc["api"] \in {"analyze", "vs_add"}

\* C22: a pending record whose analysis or update raises does not end the
\* pass: the loop goes on to the next record and never leaves through an
\* exception; at the call of add_job_entries the loop has been through every
\* pending record, the records handed over are exactly those now
\* analyzed = true, in query order, and every other record of the pass is
\* still analyzed = false.
C22_FailureSkipsOneRecord ==
    /\ [][pc["api"] = "analyze" =>
             /\ pc'["api"] \in {"analyze", "vs_add"}
             /\ loc'["api"].i = loc["api"].i + 1
             /\ loc'["api"].unanalyzed = loc["api"].unanalyzed]_vars
    /\ [](pc["api"] = "vs_add" =>
             /\ PassLeft = <<>>
             /\ loc["api"].analyzed_jobs =
                    Filter(loc["api"].unanalyzed,
                           {id \in Range(loc["api"].unanalyzed) : RowOf(id).analyzed}))

\* Of two pending records the first failed and the second was analyzed.
C22_Witness ==
    /\ pc["api"] = "vs_add"
    /\ Len(loc["api"].unanalyzed) = 2
    /\ loc["api"].analyzed_jobs = <<loc["api"].unanalyzed[2]>>
    /\ ~RowOf(loc["api"].unanalyzed[1]).analyzed

\* C23: at every point of a pass the database holds analyzed = true and the
\* analysis for each record the loop has analyzed so far, and analyzed =
\* false for each record the loop has not reached.
C23_PersistedPerRecord ==
    InPass =>
        /\ \A id \in Range(loc["api"].analyzed_jobs) :
                /\ id \in Range(PassDone)
                /\ RowOf(id).analyzed
                /\ RowOf(id).analysis_result \in AnalysisTexts
        /\ \A id \in Range(PassLeft) : ~RowOf(id).analyzed

\* The loop has analyzed the first of two pending records and not yet
\* reached the second.
C23_Witness ==
    /\ pc["api"] = "analyze"
    /\ Len(loc["api"].unanalyzed) = 2 /\ loc["api"].i = 2
    /\ loc["api"].analyzed_jobs = <<loc["api"].unanalyzed[1]>>

(***************************************************************************)
(* collector/rss_client.py: the three providers                            *)
(*                                                                         *)
(* What a feed source answers is an input: a failure (the request, the     *)
(* status check or the JSON decoding raises) or a list of entries in the   *)
(* source's own field names.                                               *)
(***************************************************************************)
\* The dict _fetch_direct builds for a feed entry, content filled in from
\* content_results.
direct_entry_data(entry, feed_config, content) ==
    [title |-> entry.title,
     link |-> entry.link,
     description |-> entry.description,
     published |-> entry.published,
     source |-> feed_config.name,
     category |-> feed_config.category,
     content |-> content]

\* One turn of the loop over feeds: the entries of a feed the store does not
\* hold, each with its content; nothing when anything in the try raises.
\* contents[k] is what _fetch_full_content returns for the k-th entry.
direct_feed_entries(table, feed) ==
    IF feed.kind = "raise" THEN <<>>
    ELSE LET batch(fresh) ==
                [j \in 1..Len(fresh) |->
                    direct_entry_data(feed.entries[fresh[j]], feed.config, feed.content)]
         IN  batch(Filter([k \in 1..Len(feed.entries) |-> k],
                          {k \in 1..Len(feed.entries) :
                                ~is_job_already_processed(table, feed.entries[k].title,
                                                          feed.entries[k].link)}))

\* A bug _fetch_direct could have: the try around the loop, not inside it,
\* so that a failing feed ends the fetch with what was collected before it.
RECURSIVE fetch_direct_abort(_, _)
fetch_direct_abort(table, feeds) ==
    IF feeds = <<>> THEN <<>>
    ELSE IF Head(feeds).kind = "raise" THEN <<>>
    ELSE direct_feed_entries(table, Head(feeds)) \o fetch_direct_abort(table, Tail(feeds))

\* _fetch_direct: feeds is config['rss_feeds'], each with what its source
\* answered.
RECURSIVE fetch_direct(_, _)
fetch_direct(table, feeds) ==
    IF feeds = <<>> THEN <<>>
    ELSE direct_feed_entries(table, Head(feeds)) \o fetch_direct(table, Tail(feeds))

\* _fetch_freshrss: every item of the reading list, the store not consulted.
fetch_freshrss(resp) ==
    IF resp.kind = "raise" THEN <<>>
    ELSE [k \in 1..Len(resp.items) |->
            [title |-> resp.items[k].title,
             link |-> resp.items[k].href,
             description |-> resp.items[k].summary,
             published |-> resp.items[k].published,
             source |-> resp.items[k].origin,
             category |-> "general",
             content |-> resp.items[k].content]]

\* A published_at or last_miniflux_fetch value is None (NoneStamp), the empty
\* str (0) or a timestamp str, which the code orders by > on str: a
\* timestamp is its rank in that order.
truthy(v) == v # NoneStamp /\ v # 0

\* A bug the loop could have: the content fetched before the gate is asked.
RECURSIVE miniflux_loop_fetch_first(_, _, _, _, _)
miniflux_loop_fetch_first(table, entries, llms, k, acc) ==
    IF k > Len(entries) THEN acc
    ELSE LET entry == entries[k] IN
         IF is_job_already_processed(table, entry.title, entry.url)
         THEN miniflux_loop_fetch_first(table, entries, llms, k + 1, acc)
         ELSE LET latest == IF ~truthy(acc.latest) \/ entry.published_at > acc.latest
                            THEN entry.published_at ELSE acc.latest
                  scored == [acc EXCEPT !.latest = latest, !.scored = Append(@, k)]
              IN  miniflux_loop_fetch_first(table, entries, llms, k + 1,
                    \* entry.get('link', ''): a Miniflux entry has 'url' and no 'link'
                    IF ~quick_relevance_check(table, entry.title, <<>>, llms[k]).relevant
                    THEN [scored EXCEPT !.fetched = Append(@, k)]
                    ELSE [scored EXCEPT
                            !.fetched = Append(@, k),
                            !.entries = Append(@,
                                [title |-> entry.title,
                                 link |-> entry.url,
                                 description |-> entry.content,
                                 published |-> entry.published_at,
                                 source |-> entry.feed,
                                 category |-> "general",
                                 content |-> entry.page])])

\* The loop of _fetch_miniflux over data['entries']. acc holds
\* latest_timestamp, the candidates, and for the record of what was done:
\* the positions scored by the gate and those whose content was fetched.
RECURSIVE miniflux_loop(_, _, _, _, _)
miniflux_loop(table, entries, llms, k, acc) ==
    IF k > Len(entries) THEN acc
    ELSE LET entry == entries[k] IN
         IF is_job_already_processed(table, entry.title, entry.url)
         THEN miniflux_loop(table, entries, llms, k + 1, acc)
         ELSE LET latest == IF ~truthy(acc.latest) \/ entry.published_at > acc.latest
                            THEN entry.published_at ELSE acc.latest
                  scored == [acc EXCEPT !.latest = latest, !.scored = Append(@, k)]
              IN  miniflux_loop(table, entries, llms, k + 1,
                    \* entry.get('link', ''): a Miniflux entry has 'url' and no 'link'
                    IF ~quick_relevance_check(table, entry.title, <<>>, llms[k]).relevant
                    THEN scored
                    ELSE [scored EXCEPT
                            !.fetched = Append(@, k),
                            !.entries = Append(@,
                                [title |-> entry.title,
                                 link |-> entry.url,
                                 description |-> entry.content,
                                 published |-> entry.published_at,
                                 source |-> entry.feed,
                                 category |-> "general",
                                 content |-> entry.page])])

\* save_yaml_config(config): the file written and _config set, or open()
\* raises and neither happens.
save_yaml_config(config_state, config, ok) ==
    IF ok THEN [file |-> config, cache |-> config, loaded |-> TRUE] ELSE config_state

\* The config property: _config, loaded from the file when it is None.
config_of(config_state) ==
    IF config_state.loaded THEN config_state.cache ELSE config_state.file

\* self._config = self.load_yaml_config()
load_config(config_state) ==
    [config_state EXCEPT !.cache = config_of(config_state), !.loaded = TRUE]

\* self._config = None
clear_config(config_state) ==
    [config_state EXCEPT !.cache = EmptyConfig, !.loaded = FALSE]

\* _fetch_miniflux. resp: what GET /v1/entries gave; llms[k]: what the
\* scoring service does when asked about entry k; save_ok: whether
\* save_yaml_config can write. The config dict is changed in place before
\* the save, so a failing save leaves the new value in _config.
fetch_miniflux(table, config_state, resp, llms, save_ok) ==
    LET last_fetch == config_of(config_state).last_miniflux_fetch
        loaded == load_config(config_state)
    IN  IF resp.kind = "raise"
        THEN [entries |-> <<>>, cfg |-> loaded, scored |-> <<>>, fetched |-> <<>>,
              result |-> "caught"]
        ELSE LET after_loop(acc) ==
                    LET config == [loaded.cache EXCEPT !.last_miniflux_fetch = acc.latest]
                    IN  IF truthy(acc.latest) /\ acc.latest # last_fetch
                        THEN IF save_ok
                             THEN [entries |-> acc.entries,
                                   cfg |-> save_yaml_config(loaded, config, TRUE),
                                   scored |-> acc.scored, fetched |-> acc.fetched,
                                   result |-> "returned"]
                             ELSE [entries |-> <<>>,
                                   cfg |-> [loaded EXCEPT !.cache = config],
                                   scored |-> acc.scored, fetched |-> acc.fetched,
                                   result |-> "caught"]
                        ELSE [entries |-> acc.entries, cfg |-> loaded,
                              scored |-> acc.scored, fetched |-> acc.fetched,
                              result |-> "returned"]
             IN  after_loop(miniflux_loop(table, resp.entries, llms, 1,
                                          [latest |-> last_fetch, entries |-> <<>>,
                                           scored |-> <<>>, fetched |-> <<>>]))

(***************************************************************************)
(* collector/scheduler.py: the handlers, each run by one caller from its   *)
(* first line to its return. st is the state they work on:                 *)
(*   [rows, index, documents, disk, cfg]                                   *)
(* and env what the outside does during the call.                          *)
(***************************************************************************)
\* The loop of analyze_pending_jobs over unanalyzed (ids, in query order);
\* outs[k] is what happens to the k-th job (AnalyzeOutcomes).
RECURSIVE analyze_loop(_, _, _, _, _, _)
analyze_loop(table, unanalyzed, outs, text, k, analyzed_jobs) ==
    IF k > Len(unanalyzed) THEN [rows |-> table, analyzed_jobs |-> analyzed_jobs]
    ELSE LET next(r) ==
                analyze_loop(r.rows, unanalyzed, outs, text, k + 1,
                             IF r.result = "None" THEN Append(analyzed_jobs, unanalyzed[k])
                             ELSE analyzed_jobs)
         IN  next(IF outs[k] = "llm" THEN [rows |-> table, result |-> "raise"]
                  ELSE update_analysis_result(table, unanalyzed[k], text,
                                              outs[k] = "update"))

\* The ids get_unanalyzed_entries returns, in table order.
unanalyzed_ids(table) ==
    LET ids(at) == [k \in 1..Len(at) |-> table[at[k]].id] IN
    ids(get_unanalyzed_entries(table))

\* A bug analyze_pending_jobs could have: no try around the vector store call.
analyze_pending_jobs_add_uncaught(st, env) ==
    IF ~env.query_ok
    THEN st @@ [result |-> "raise", analyzed_jobs |-> <<>>, add |-> "skipped"]
    ELSE LET added(l, r) ==
                [rows |-> l.rows, index |-> r.index, documents |-> r.documents,
                 disk |-> r.disk, cfg |-> st.cfg,
                 result |-> r.result, analyzed_jobs |-> l.analyzed_jobs,
                 add |-> IF l.analyzed_jobs = <<>> THEN "skipped" ELSE r.result]
             looped(l) ==
                added(l, add_job_entries(st.index, st.documents, st.disk,
                                         [k \in 1..Len(l.analyzed_jobs) |->
                                            l.rows[first_by_id(l.rows, l.analyzed_jobs[k])]],
                                         env.add, env.save))
         IN  looped(analyze_loop(st.rows, unanalyzed_ids(st.rows), env.outs, env.text,
                                 1, <<>>))

\* analyze_pending_jobs. env.query_ok: get_unanalyzed_entries returns;
\* env.outs, env.text: the analysis of each job; env.add, env.save: what
\* add_job_entries meets. The jobs handed over are the session's objects, so
\* they carry the analysis just stored. add tells how the call of
\* add_job_entries ended: "skipped" (no analyzed job), "None" or "raise".
analyze_pending_jobs(st, env) ==
    IF ~env.query_ok
    THEN st @@ [result |-> "raise", analyzed_jobs |-> <<>>, add |-> "skipped"]
    ELSE LET added(l, r) ==
                [rows |-> l.rows, index |-> r.index, documents |-> r.documents,
                 disk |-> r.disk, cfg |-> st.cfg,
                 result |-> "None", analyzed_jobs |-> l.analyzed_jobs,
                 add |-> IF l.analyzed_jobs = <<>> THEN "skipped" ELSE r.result]
             looped(l) ==
                added(l, add_job_entries(st.index, st.documents, st.disk,
                                         [k \in 1..Len(l.analyzed_jobs) |->
                                            l.rows[first_by_id(l.rows, l.analyzed_jobs[k])]],
                                         env.add, env.save))
         IN  looped(analyze_loop(st.rows, unanalyzed_ids(st.rows), env.outs, env.text,
                                 1, <<>>))

\* for entry in entries: if db_manager.add_job_entry(entry): new_count += 1
\* fault_at: the turn in which the commit fails, 0 for none.
RECURSIVE add_loop(_, _, _, _, _)
add_loop(table, entries, fault_at, k, new_count) ==
    IF k > Len(entries) THEN [rows |-> table, new_count |-> new_count, result |-> "None"]
    ELSE LET next(r) ==
                IF r.result \in {"True", "False"}
                THEN add_loop(r.rows, entries, fault_at, k + 1,
                              IF r.result = "True" THEN new_count + 1 ELSE new_count)
                ELSE [rows |-> r.rows, new_count |-> new_count, result |-> "raise"]
         IN  next(add_job_entry(table, entries[k], k = fault_at))

\* fetch_entries on the reloaded configuration. env.src: what the feed
\* source, or config['rss_feeds'], gives. result: "raise" when an exception
\* leaves fetch_entries, "caught" when the provider's own handler caught one
\* (and the provider, or one feed of it, gave no entries), else "returned".
provider_fetch(st, provider, env) ==
    CASE provider = "direct" ->
            IF env.src.kind = "no rss_feeds"
            THEN [entries |-> <<>>, cfg |-> st.cfg, result |-> "raise"]
            ELSE [entries |-> fetch_direct(st.rows, env.src.feeds), cfg |-> st.cfg,
                  result |-> IF \E k \in 1..Len(env.src.feeds) : env.src.feeds[k].kind = "raise"
                             THEN "caught" ELSE "returned"]
      [] provider = "miniflux" ->
            LET fetched(r) == [entries |-> r.entries, cfg |-> r.cfg, result |-> r.result]
            IN  fetched(fetch_miniflux(st.rows, st.cfg, env.src, env.llms, env.save_config))
      [] provider = "freshrss" ->
            [entries |-> fetch_freshrss(env.src), cfg |-> st.cfg,
             result |-> IF env.src.kind = "raise" THEN "caught" ELSE "returned"]

\* The try block of fetch_and_analyze_jobs, lines 52-73: result "raise" when
\* an exception leaves it, step names the statement it came from and
\* inserted is the table as the loop over entries left it.
cycle_body(st, env) ==
    LET stopped(at, cfg_now, table, n) ==
            [rows |-> table, index |-> st.index, documents |-> st.documents,
             disk |-> st.disk, cfg |-> cfg_now, result |-> "raise", step |-> at,
             fetch |-> IF at = "add" THEN "returned" ELSE "none",
             new_count |-> n, inserted |-> table, analyzed_jobs |-> <<>>,
             add |-> "skipped"]
        \* config_loader.reload_config(): _config = None, then the file is read;
        \* rss_client.reload_config() does the same again
        reloaded == load_config(clear_config(st.cfg))
    IN  IF ~env.reload_ok THEN stopped("reload", clear_config(st.cfg), st.rows, 0)
        ELSE IF env.provider = "miniflux" /\ ~env.sync_ok
        THEN stopped("sync", reloaded, st.rows, 0)
        ELSE LET analyzed(f, a, p) ==
                    [rows |-> p.rows, index |-> p.index, documents |-> p.documents,
                     disk |-> p.disk, cfg |-> p.cfg, result |-> p.result,
                     step |-> "analyze", fetch |-> f.result,
                     new_count |-> a.new_count,
                     inserted |-> a.rows, analyzed_jobs |-> p.analyzed_jobs,
                     add |-> p.add]
                 added(f, a) ==
                    IF a.result = "raise"
                    THEN [stopped("add", f.cfg, a.rows, a.new_count) EXCEPT !.fetch = f.result]
                    ELSE analyzed(f, a, analyze_pending_jobs(
                                    [st EXCEPT !.rows = a.rows, !.cfg = f.cfg], env.pending))
                 fetched(f) ==
                    IF f.result = "raise" THEN stopped("fetch", f.cfg, st.rows, 0)
                    ELSE added(f, add_loop(st.rows, f.entries, env.fault_at, 1, 0))
             IN  fetched(provider_fetch([st EXCEPT !.cfg = reloaded], env.provider, env))

\* A bug fetch_and_analyze_jobs could have: no try around its body.
fetch_and_analyze_jobs_uncaught(st, env) ==
    LET left(r) == [r EXCEPT !.step = IF r.result = "None" THEN "done" ELSE @]
    IN  left(cycle_body(st, env))

\* fetch_and_analyze_jobs: try: the body; except Exception: print(...).
\* It returns None either way; step tells where the body stopped.
fetch_and_analyze_jobs(st, env) ==
    LET caught(r) == [r EXCEPT !.result = "None",
                               !.step = IF r.result = "None" THEN "done" ELSE @]
    IN  caught(cycle_body(st, env))

(***************************************************************************)
(* analysis/vector_store.py: rebuild_index                                 *)
(***************************************************************************)
BatchSize == 100

\* What an instance of DatabaseManager has: the attributes __init__ sets and
\* the methods of the class. JobEntry is a name of the module collector.db,
\* not of the instance.
DatabaseManagerAttrs ==
    {"engine", "session", "generate_job_id", "add_job_entry", "get_unanalyzed_entries",
     "update_analysis_result", "get_all_entries", "search_entries"}

\* for i in range(0, len(all_jobs), batch_size): add_job_entries(all_jobs[i:i + batch_size])
RECURSIVE rebuild_loop(_, _, _, _)
rebuild_loop(st, all_jobs, i, batches) ==
    IF i > Len(all_jobs)
    THEN st @@ [result |-> "None", batches |-> batches]
    ELSE LET last == IF i + BatchSize - 1 < Len(all_jobs) THEN i + BatchSize - 1
                     ELSE Len(all_jobs)
             next(r) ==
                rebuild_loop([st EXCEPT !.index = r.index, !.documents = r.documents,
                                        !.disk = r.disk],
                             all_jobs, i + BatchSize, Append(batches, last - i + 1))
         IN  next(add_job_entries(st.index, st.documents, st.disk,
                                  SubSeq(all_jobs, i, last), "ok", "saved"))

\* rebuild_index: _create_new_index() (the probe embedding may raise), then
\* line 172 evaluates db_manager.JobEntry, then the batches.
rebuild_index(st, probe_ok) ==
    IF ~probe_ok THEN st @@ [result |-> "raise", batches |-> <<>>]
    ELSE LET cleared == [st EXCEPT !.index = <<>>, !.documents = <<>>] IN
         IF "JobEntry" \notin DatabaseManagerAttrs
         THEN cleared @@ [result |-> "AttributeError", batches |-> <<>>]
         ELSE rebuild_loop(cleared,
                           Filter(st.rows, {r \in Range(st.rows) : r.analyzed}), 1, <<>>)

(***************************************************************************)
(* SpecSys: the scheduler's handlers and rebuild_index called one after    *)
(* the other, each running from its first line to its return.              *)
(*                                                                         *)
(* Two postings exist. Every source describes a posting by the same        *)
(* values, in its own field names; its published value is a timestamp.     *)
(***************************************************************************)
Posting(k) ==
    [title |-> IF k = 1 THEN <<"a">> ELSE <<"b">>, link |-> <<"x">>, published |-> k]
\* What a source can list: nothing, the first posting, or both, newest last.
PostingLists == {<<>>, <<1>>, <<1, 2>>}

DirectFeed(ps) ==
    [kind |-> "ok", config |-> [name |-> "s", category |-> "general"], content |-> "",
     entries |-> [k \in 1..Len(ps) |->
                    [title |-> Posting(ps[k]).title, link |-> Posting(ps[k]).link,
                     description |-> "d", published |-> Posting(ps[k]).published]]]
FailedFeed == [kind |-> "raise", config |-> [name |-> "s", category |-> "general"]]

MinifluxResponse(ps) ==
    [kind |-> "ok",
     entries |-> [k \in 1..Len(ps) |->
                    [title |-> Posting(ps[k]).title, url |-> Posting(ps[k]).link,
                     content |-> "d", published_at |-> Posting(ps[k]).published,
                     feed |-> "s", page |-> ""]]]

FreshrssResponse(ps) ==
    [kind |-> "ok",
     items |-> [k \in 1..Len(ps) |->
                    [title |-> Posting(ps[k]).title, href |-> Posting(ps[k]).link,
                     summary |-> "d", published |-> Posting(ps[k]).published,
                     origin |-> "s", content |-> ""]]]

Providers == {"direct", "miniflux", "freshrss"}
\* What the source of a provider can answer when it can list the postings
\* of lists.
Sources(provider, lists) ==
    CASE provider = "direct" ->
            {[kind |-> "no rss_feeds"], [kind |-> "feeds", feeds |-> <<FailedFeed>>]}
            \cup {[kind |-> "feeds", feeds |-> <<DirectFeed(ps)>>] : ps \in lists}
      [] provider = "miniflux" ->
            {[kind |-> "raise"]} \cup {MinifluxResponse(ps) : ps \in lists}
      [] provider = "freshrss" ->
            {[kind |-> "raise"]} \cup {FreshrssResponse(ps) : ps \in lists}

\* The postings a source's answer lists, as their numbers.
Listed(provider, src) ==
    CASE provider = "direct" ->
            IF src.kind = "feeds" /\ src.feeds[1].kind = "ok"
            THEN [k \in 1..Len(src.feeds[1].entries) |-> src.feeds[1].entries[k].published]
            ELSE <<>>
      [] provider = "miniflux" ->
            IF src.kind = "ok"
            THEN [k \in 1..Len(src.entries) |-> src.entries[k].published_at] ELSE <<>>
      [] provider = "freshrss" ->
            IF src.kind = "ok"
            THEN [k \in 1..Len(src.items) |-> src.items[k].published] ELSE <<>>

\* What the scoring service answers the gate: a low score or a high one.
GateAnswers == {[kind |-> "text", text |-> <<"3">>], [kind |-> "text", text |-> <<"7">>]}
GateAnswerLists(provider, src) ==
    IF provider = "miniflux" /\ src.kind = "ok"
    THEN [1..Len(src.entries) -> GateAnswers] ELSE {<<>>}

\* In SpecSys a job's analysis returns or analyze_job_posting raises, and
\* the vector store's add returns or index.add raises; the failing commit of
\* an update and the failing encode leave the same state behind as these.
SysAnalyzeOutcomes == {"ok", "llm"}
SysAddOutcomes == {"ok", "add_raises"}

NoPendingEnv ==
    [query_ok |-> FALSE, outs |-> <<>>, text |-> "analysis", add |-> "ok", save |-> "saved"]
\* What analyze_pending_jobs can meet when it starts on table: the query
\* fails, or each job meets one of outcomes and the vector store one of adds.
PendingEnvs(table, outcomes, adds) ==
    {NoPendingEnv}
    \cup {[query_ok |-> TRUE, outs |-> o, text |-> t, add |-> a, save |-> "saved"] :
            o \in [1..Len(unanalyzed_ids(table)) -> outcomes],
            t \in AnalysisTexts, a \in adds}
\* The same when nothing fails.
PendingOk(table) ==
    {[query_ok |-> TRUE, outs |-> [k \in 1..Len(unanalyzed_ids(table)) |-> "ok"],
      text |-> t, add |-> "ok", save |-> "saved"] : t \in AnalysisTexts}

State == [rows |-> rows, index |-> index, documents |-> documents, disk |-> disk,
          cfg |-> cfg]

NoCycleEnv ==
    [reload_ok |-> TRUE, provider |-> "direct", sync_ok |-> TRUE,
     src |-> [kind |-> "no rss_feeds"], llms |-> <<>>, save_config |-> TRUE,
     fault_at |-> 0, pending |-> NoPendingEnv]

\* What the provider fetch of a cycle can meet.
FetchEnvs(lists) ==
    UNION {UNION {{[NoCycleEnv EXCEPT !.provider = provider, !.src = src, !.llms = llms,
                                      !.save_config = save] :
                        llms \in GateAnswerLists(provider, src),
                        save \in IF provider = "miniflux" /\ src.kind = "ok"
                                 THEN BOOLEAN ELSE {TRUE}}
                  : src \in Sources(provider, lists)}
           : provider \in Providers}

\* e extended by what the insertions and analyze_pending_jobs can meet after
\* the fetch e describes: a commit fails in turn k, or none does and
\* analyze_pending_jobs runs. full: failures of the analysis are included.
AfterFetchEnvs(st, e, full) ==
    LET reloaded == [st EXCEPT !.cfg = load_config(clear_config(st.cfg))]
        after(entries, table) ==
            {[e EXCEPT !.fault_at = k] : k \in 1..Len(entries)}
            \cup {[e EXCEPT !.pending = p] :
                    p \in IF full THEN PendingEnvs(table, SysAnalyzeOutcomes, SysAddOutcomes)
                          ELSE PendingOk(table)}
        fetched(entries) == after(entries, add_loop(st.rows, entries, 0, 1, 0).rows)
    IN  fetched(provider_fetch(reloaded, e.provider, e).entries)

\* What a cycle that starts on st can meet: a failing reload, a failing feed
\* sync, or a provider, its source's answer, the scoring answers, and then
\* what the insertions and analyze_pending_jobs meet.
CycleEnvs(st, lists, full) ==
    {[NoCycleEnv EXCEPT !.reload_ok = FALSE],
     [NoCycleEnv EXCEPT !.provider = "miniflux", !.sync_ok = FALSE]}
    \cup UNION {AfterFetchEnvs(st, e, full) : e \in FetchEnvs(lists)}

InitSys ==
    /\ StoreIdle /\ IndexIdle /\ ConfigIdle /\ CallIdle /\ ThreadsIdle
    /\ IdIdle /\ GateIdle /\ FilterIdle

SetState(r) ==
    /\ rows' = r.rows
    /\ index' = r.index
    /\ documents' = r.documents
    /\ disk' = r.disk
    /\ cfg' = r.cfg

\* What a cycle leaves in call: who ran it, how many records and documents
\* there were before, how many entries the source listed, where the cycle
\* got to, how many records (stored) and how many of them unanalyzed
\* (pending) the table held when the loop over entries ended, and how the
\* analysis went.
CycleCall(name, env, r) ==
    [op |-> name, provider |-> env.provider,
     before |-> Len(rows), indexed |-> Len(documents),
     listed |-> Len(Listed(env.provider, env.src)),
     result |-> r.result, step |-> r.step, fetch |-> r.fetch,
     new_count |-> r.new_count,
     stored |-> Len(r.inserted),
     pending |-> Len(unanalyzed_ids(r.inserted)),
     analyzed_jobs |-> Len(r.analyzed_jobs), add |-> r.add]

\* force_fetch of the API, "Force Fetch Now" of the dashboard
SysForceFetch(env) ==
    LET ran(r) == SetState(r) /\ call' = CycleCall("force_fetch", env, r) IN
    /\ ran(fetch_and_analyze_jobs(State, env))
    /\ UNCHANGED <<running, live>>

\* analyze_pending of the API, "Analyze Pending" of the dashboard
SysAnalyzePending(env) ==
    LET ran(r) ==
            /\ SetState(r)
            /\ call' = [op |-> "analyze_pending", result |-> r.result,
                        analyzed_jobs |-> Len(r.analyzed_jobs), add |-> r.add]
    IN  /\ ran(analyze_pending_jobs(State, env))
        /\ UNCHANGED <<running, live>>

\* rebuild_index of the API, "Rebuild Vector Index" of the dashboard
SysRebuildIndex(probe_ok) ==
    LET ran(r) ==
            /\ SetState(r)
            /\ call' = [op |-> "rebuild_index", probe_ok |-> probe_ok, result |-> r.result,
                        batches |-> r.batches]
    IN  /\ ran(rebuild_index(State, probe_ok))
        /\ UNCHANGED <<running, live>>

NextSys ==
    \/ \E env \in CycleEnvs(State, PostingLists, TRUE) : SysForceFetch(env)
    \/ \E env \in PendingEnvs(rows, SysAnalyzeOutcomes, SysAddOutcomes) :
            SysAnalyzePending(env)
    \/ \E probe_ok \in BOOLEAN : SysRebuildIndex(probe_ok)

SpecSys ==
    InitSys /\ [][NextSys /\ UNCHANGED <<idq, gate, tf, pc, op, loc, nops>>]_vars

\* A cycle that started on an empty store and an empty index, was listed
\* exactly one entry, took it as a candidate and met no failing step up to
\* the end of its loop over the entries.
OneEntryCycle(c) ==
    /\ c.op = "force_fetch"
    /\ c.before = 0 /\ c.indexed = 0
    /\ c.listed = 1
    /\ c.fetch = "returned" /\ c.step \in {"analyze", "done"}
    /\ c.new_count = 1

\* C12 as claimed: from an empty store and index, with a feed that returns
\* one entry, a cycle that has run leaves exactly 1 record with
\* analyzed = false; an analyze_pending_jobs run after it leaves the record
\* analyzed = true and the VectorStore with exactly 1 document.
C12_PendingAfterCycle ==
    /\ [](OneEntryCycle(call) => (Len(rows) = 1 /\ ~rows[1].analyzed))
    /\ [][(OneEntryCycle(call) /\ call'.op = "analyze_pending" /\ call'.result = "None"
           /\ call'.add # "raise" /\ call'.analyzed_jobs = Len(unanalyzed_ids(rows))) =>
                (Len(rows') = 1 /\ rows'[1].analyzed /\ Len(documents') = 1)]_vars

\* A one-entry cycle in which the analysis of the record and the add to the
\* VectorStore succeeded too.
OneEntryCycleDone(c) ==
    OneEntryCycle(c) /\ c.step = "done" /\ c.analyzed_jobs = 1 /\ c.add = "None"

\* C12 as amended: from an empty store and index, with a source that lists
\* one entry which becomes a candidate, and no failing step: the store holds
\* exactly 1 record, analyzed = false, when the cycle's loop over the entries
\* has ended; when the cycle has returned the record is analyzed = true and
\* the VectorStore holds exactly 1 document, and an analyze_pending_jobs run
\* after it changes neither.
C12_AnalyzedWithinCycle ==
    /\ [](OneEntryCycle(call) => (call.stored = 1 /\ call.pending = 1 /\ Len(rows) = 1))
    /\ [](OneEntryCycleDone(call) =>
            (rows[1].analyzed /\ Len(documents) = 1 /\ Len(index) = 1
             /\ documents[1].id = rows[1].id))
    /\ [][(OneEntryCycleDone(call) /\ call'.op = "analyze_pending") =>
            (rows' = rows /\ documents' = documents /\ index' = index
             /\ call'.analyzed_jobs = 0)]_vars

C12_Witness ==
    /\ call.op = "analyze_pending" /\ call.result = "None" /\ call.analyzed_jobs = 0
    /\ Len(rows) = 1 /\ rows[1].analyzed /\ rows[1].analysis_result = "analysis"
    /\ Len(documents) = 1 /\ documents[1].id = rows[1].id
    /\ cfg.file.last_miniflux_fetch = 1

\* The analyzed records of the table.
AnalyzedRows == {i \in 1..Len(rows) : rows[i].analyzed}

RECURSIVE SumSeq(_)
SumSeq(q) == IF q = <<>> THEN 0 ELSE Head(q) + SumSeq(Tail(q))

\* C32: a cycle that fails (an exception reaches the handler of
\* fetch_and_analyze_jobs, so the cycle does not get to its end) leaves the
\* Record Store holding the records it held when the cycle started, with the
\* same field values.
C32_FailedCycleSilent ==
    [][(call'.op = "force_fetch" /\ call'.step # "done") => rows' = rows]_vars

\* The fields of a record that are given at its creation.
CreationFields ==
    {"id", "title", "link", "description", "content", "published", "source", "category",
     "created_at"}
AtCreation(r) == [f \in CreationFields |-> r[f]]

\* C36: a cycle with any provider, an on-demand analyze_pending_jobs and a
\* rebuild of the index (and so add_job_entry for a stored identity,
\* update_analysis_result and the VectorStore's add inside them) remove no
\* record and leave id, title, link, description, content, published,
\* source, category and created_at of every stored record as they were;
\* only analyzed, analysis_result and relevance_score can differ.
C36_CreationFieldsKept ==
    [][/\ Len(rows') >= Len(rows)
       /\ \A i \in 1..Len(rows) : AtCreation(rows'[i]) = AtCreation(rows[i])]_vars

\* A cycle met a stored and analyzed posting in the provider's list again
\* and inserted nothing.
C36_Witness ==
    /\ call.op = "force_fetch" /\ call.step = "done"
    /\ call.before = 1 /\ call.listed = 1 /\ call.new_count = 0
    /\ Len(rows) = 1 /\ rows[1].analyzed /\ rows[1].analysis_result # "None"
    /\ Len(documents) >= 1

\* C13: rebuild_index on a store of N analyzed records, the probe embedding
\* given, completes without error and leaves exactly N documents, one per
\* analyzed record, added in ceil(N / 100) batches of at most 100.
C13_RebuildComplete ==
    (call.op = "rebuild_index" /\ call.probe_ok) =>
        LET N == Cardinality(AnalyzedRows) IN
        /\ call.result = "None"
        /\ Len(documents) = N /\ Len(index) = N
        /\ \A i \in AnalyzedRows : \E j \in 1..Len(documents) : documents[j].id = rows[i].id
        /\ Len(call.batches) = (N + BatchSize - 1) \div BatchSize
        /\ \A k \in 1..Len(call.batches) : call.batches[k] \in 1..BatchSize
        /\ SumSeq(call.batches) = N

(***************************************************************************)
(* SpecForever: the handlers of SpecSeq called by one thread again and     *)
(* again, without end and with no rebuild. The thread that runs a handler  *)
(* goes on to its next statement (WF), and a cycle is started again and   *)
(* again: the loop of _run_scheduler calls fetch_and_analyze_jobs at every *)
(* period for as long as the process runs (SF, the thread being idle again *)
(* and again). What the outside answers is transient: a step that is       *)
(* possible again and again with no failure is taken with no failure again *)
(* and again (SF).                                                         *)
(***************************************************************************)
\* A handler called once more; first is the position of its first statement.
Again(name, first) ==
    /\ pc["api"] = "idle"
    /\ pc' = [pc EXCEPT !["api"] = first]
    /\ op' = [op EXCEPT !["api"] = name]
    /\ UNCHANGED <<rows, indexVars, call, idq, gate, tf, running, live, loc, nops, cfg>>

StepForever ==
    \/ \E ok \in BOOLEAN : Reload("api", ok)
    \/ \E provider \in {"direct", "freshrss"}, feed \in FeedContents :
            Fetch("api", provider, feed)
    \/ AddCheck("api")
    \/ \E fault \in BOOLEAN : AddCommit("api", fault)
    \/ Caught("api")
    \/ Pending("api")
    \/ \E outcome \in AnalyzeOutcomes, text \in AnalysisTexts : Analyze("api", outcome, text)
    \/ \E outcome \in AddOutcomes, save \in SaveOutcomes : VsAdd("api", outcome, save)

NextForever ==
    \/ Again("force_fetch", "reload")
    \/ Again("analyze_pending", "pending")
    \/ StepForever

\* Every step of a handler moves its thread: fairness is stated on threadVars.
FairForever ==
    /\ SF_threadVars(Again("force_fetch", "reload"))
    /\ WF_threadVars(StepForever)
    /\ SF_threadVars(Reload("api", TRUE))
    /\ SF_threadVars(Fetch("api", "direct", FeedOrder))
    /\ SF_threadVars(AddCommit("api", FALSE))
    /\ \A text \in AnalysisTexts : SF_threadVars(Analyze("api", "ok", text))
    /\ SF_threadVars(VsAdd("api", "ok", "saved"))

SpecForever == InitConc /\ [][NextForever]_vars /\ FairForever

\* The analyzed records that no document of the VectorStore describes.
Unindexed ==
    {i \in AnalyzedRows : \A j \in 1..Len(documents) : documents[j].id # rows[i].id}

\* C25: with no rebuild, whenever a pass of analyze_pending_jobs has
\* returned and left an analyzed record without a document, a later state
\* has a document for every analyzed record.
C25_EventuallyIndexed ==
    (pc["api"] = "idle" /\ Unindexed # {}) ~> (Unindexed = {})

(***************************************************************************)
(* SpecAnalysis: the behaviours of SpecForever's actions in which cycles   *)
(* recur (the scheduler thread runs the fetch job every fetch_interval     *)
(* hours), every call returns, so a handler that has started goes on, the  *)
(* calls before the analysis (the reload of config.yaml, the commit of an  *)
(* insertion) do not raise for ever, and the analysis of a job with the    *)
(* commit of its result does not raise for ever. Nothing is assumed of     *)
(* what the feed lists or of the VectorStore.                              *)
(***************************************************************************)
FairAnalysis ==
    /\ SF_threadVars(Again("force_fetch", "reload"))
    /\ WF_threadVars(StepForever)
    /\ SF_threadVars(Reload("api", TRUE))
    /\ SF_threadVars(AddCommit("api", FALSE))
    /\ \A text \in AnalysisTexts : SF_threadVars(Analyze("api", "ok", text))

SpecAnalysis == InitConc /\ [][NextForever]_vars /\ FairAnalysis

Ids(table) == {table[i].id : i \in 1..Len(table)}

\* A cycle with no failing step: the reload, the feed sync, the provider's
\* fetch (the source's answer and, for miniflux, the save of the watermark)
\* and every insertion returned.
CleanCycle(c) == c.op = "cycle" /\ c.step = "done" /\ c.fetch = "returned"

TwiceCycle(env) ==
    LET \* the cycle before ran through, with this provider and this answer
        \* of the feed source
        repeat == /\ CleanCycle(call)
                  /\ call.provider = env.provider
                  /\ call.src = env.src
        ran(r) ==
            /\ SetState(r)
            /\ call' = [op |-> "cycle", provider |-> env.provider, src |-> env.src,
                        llms |-> env.llms, step |-> r.step, fetch |-> r.fetch,
                        new_count |-> r.new_count, before |-> Ids(rows),
                        repeat |-> repeat,
                        steady |-> repeat /\ call.llms = env.llms]
    IN  /\ ran(fetch_and_analyze_jobs(State, env))
        /\ UNCHANGED <<running, live>>

NextTwice == \E env \in CycleEnvs(State, PostingLists, FALSE) : TwiceCycle(env)

SpecTwice ==
    InitSys /\ [][NextTwice /\ UNCHANGED <<idq, gate, tf, pc, op, loc, nops>>]_vars

\* C11 as claimed: for each provider, a cycle that follows a cycle that ran
\* through with the same provider, the feed source answering as it did in
\* the first, inserts no record and leaves the set of identities in the
\* store as it was.
C11_SecondCycleInsertsNothing ==
    (call.op = "cycle" /\ call.repeat) =>
        (call.new_count = 0 /\ Ids(rows) = call.before)

\* C11 as amended: the same when, under miniflux, the scoring service also
\* answers each entry as it did in the first cycle.
C11_SteadyCycleInsertsNothing ==
    (call.op = "cycle" /\ call.steady) =>
        (call.new_count = 0 /\ Ids(rows) = call.before)

\* A second miniflux cycle over both postings, one of them rejected twice.
C11_Witness ==
    /\ call.op = "cycle" /\ call.steady /\ call.step = "done"
    /\ call.provider = "miniflux"
    /\ call.src = MinifluxResponse(<<1, 2>>)
    /\ call.llms[1].text = <<"3">> /\ call.llms[2].text = <<"7">>
    /\ Ids(rows) = {generate_job_id(Posting(2).title, Posting(2).link)}

(***************************************************************************)
(* SpecCfg: config.yaml and config_loader._config under two threads: the   *)
(* server's, running update_keywords (update_feeds is the same code on     *)
(* another key) and the settings saves of the UI, and the scheduler's,     *)
(* running the reload and the Miniflux poll of a cycle. call holds each    *)
(* thread's position and locals.                                           *)
(***************************************************************************)
MaxStamp == 2
Stamps == 1..MaxStamp
Keywords == {1, 2}

IdleThread == [pc |-> "idle", config |-> EmptyConfig, last_fetch |-> NoneStamp]

InitCfg ==
    /\ StoreIdle /\ IndexIdle /\ ThreadsIdle /\ ConfigIdle
    /\ IdIdle /\ GateIdle /\ FilterIdle
    /\ call = [op |-> "config", api |-> IdleThread, bg |-> IdleThread]

\* config_loader.py 44-45: config = self.config.copy(); config['keywords'] = keywords
CfgUpdateCopy(keywords) ==
    /\ call.api.pc = "idle"
    /\ LET loaded == load_config(cfg) IN
       /\ cfg' = loaded
       /\ call' = [call EXCEPT !.api = [pc |-> "save", last_fetch |-> NoneStamp,
                                        config |-> [loaded.cache EXCEPT !.keywords = keywords]]]

\* config_loader.py 46: self.save_yaml_config(config)
CfgUpdateSave ==
    /\ call.api.pc = "save"
    /\ cfg' = save_yaml_config(cfg, call.api.config, TRUE)
    /\ call' = [call EXCEPT !.api = IdleThread]

\* streamlit_app.py 185-189, 205-207: config = config_loader.config, a key
\* other than the watermark and the keywords set in place, save_yaml_config.
CfgSettingsSave ==
    /\ call.api.pc = "idle"
    /\ cfg' = save_yaml_config(load_config(cfg), config_of(cfg), TRUE)
    /\ UNCHANGED call

\* scheduler.py 53-56: the reload that opens a cycle.
CfgReload ==
    /\ call.bg.pc = "idle"
    /\ cfg' = load_config(clear_config(cfg))
    /\ call' = [call EXCEPT !.bg.pc = "read"]

\* rss_client.py 108: last_fetch = config_loader.config.get('last_miniflux_fetch', None)
CfgPollRead ==
    /\ call.bg.pc = "read"
    /\ cfg' = load_config(cfg)
    /\ call' = [call EXCEPT !.bg.pc = "poll",
                            !.bg.last_fetch = config_of(cfg).last_miniflux_fetch]

\* rss_client.py 125-136: latest_timestamp after the loop, when the newest
\* entry the loop looked at is of time t (NoneStamp: it looked at none).
latest_timestamp(last_fetch, t) ==
    IF t = NoneStamp THEN last_fetch
    ELSE IF ~truthy(last_fetch) \/ t > last_fetch THEN t ELSE last_fetch

\* rss_client.py 116-161: the request, the loop, and the watermark set in
\* the config dict.
CfgPollAnswer(t) ==
    /\ call.bg.pc = "poll"
    /\ LET last_fetch == call.bg.last_fetch
           latest == latest_timestamp(last_fetch, t)
           loaded == load_config(cfg)
           config == [loaded.cache EXCEPT !.last_miniflux_fetch = latest]
       IN  IF truthy(latest) /\ latest # last_fetch
           THEN /\ cfg' = [loaded EXCEPT !.cache = config]
                /\ call' = [call EXCEPT !.bg.pc = "save", !.bg.config = config]
           ELSE /\ cfg' = cfg
                /\ call' = [call EXCEPT !.bg = IdleThread]

\* rss_client.py 162: config_loader.save_yaml_config(config)
CfgPollSave ==
    /\ call.bg.pc = "save"
    /\ cfg' = save_yaml_config(cfg, call.bg.config, TRUE)
    /\ call' = [call EXCEPT !.bg = IdleThread]

NextCfg ==
    \/ \E keywords \in Keywords : CfgUpdateCopy(keywords)
    \/ CfgUpdateSave
    \/ CfgSettingsSave
    \/ CfgReload
    \/ CfgPollRead
    \/ \E t \in Stamps \cup {NoneStamp} : CfgPollAnswer(t)
    \/ CfgPollSave

SpecCfg ==
    InitCfg /\ [][NextCfg /\ UNCHANGED <<rows, index, documents, disk, idq, gate, tf,
                                         running, live, pc, op, loc, nops>>]_vars

\* C14: the persisted watermark last_miniflux_fetch never decreases: every
\* value written to config.yaml is greater than or equal to the value it
\* replaces, whatever the interleaving of polls, reloads and saves.
C14_WatermarkNeverDecreases ==
    [][cfg'.file.last_miniflux_fetch >= cfg.file.last_miniflux_fetch]_vars

(***************************************************************************)
(* SpecLoop: start and the scheduler thread's loop. Each action is one     *)
(* call of fetch_and_analyze_jobs, by start or by schedule.run_pending in  *)
(* the thread; an exception that leaves the call leaves start before the   *)
(* thread is created, and leaves _run_scheduler, which ends the thread.    *)
(* call.failed collects the steps at which cycles have failed so far.      *)
(***************************************************************************)
LoopLists == {<<>>, <<1>>}

InitLoop ==
    /\ StoreIdle /\ IndexIdle /\ ConfigIdle /\ ThreadsIdle
    /\ IdIdle /\ GateIdle /\ FilterIdle
    /\ call = [op |-> "none", failed |-> {}]

\* The steps of a cycle that failed in the call that ended as r.
FailedSteps(r) ==
    (IF r.step # "done" THEN {r.step} ELSE {})
    \cup (IF r.add = "raise" THEN {"index add"} ELSE {})

LoopCall(name, r) ==
    [op |-> name, result |-> r.result, step |-> r.step,
     failed |-> call.failed \cup FailedSteps(r)]

\* JobScheduler.start, lines 18-39.
LoopStart(env) ==
    /\ ~running
    /\ running' = TRUE
    /\ LET ran(r) ==
            /\ SetState(r)
            /\ call' = LoopCall("start", r)
            /\ live' = IF r.result = "None" THEN live \cup {"bg"} ELSE live
       IN  ran(fetch_and_analyze_jobs(State, env))

\* One pass of _run_scheduler in which the job is due.
LoopPeriodic(env) ==
    /\ running /\ "bg" \in live
    /\ LET ran(r) ==
            /\ SetState(r)
            /\ call' = LoopCall("periodic", r)
            /\ live' = IF r.result = "None" THEN live ELSE live \ {"bg"}
       IN  ran(fetch_and_analyze_jobs(State, env))
    /\ UNCHANGED running

NextLoop ==
    \E env \in CycleEnvs(State, LoopLists, TRUE) :
        \/ LoopStart(env)
        \/ LoopPeriodic(env)

SpecLoop ==
    InitLoop /\ [][NextLoop /\ UNCHANGED <<idq, gate, tf, pc, op, loc, nops>>]_vars

CycleSteps == {"reload", "sync", "fetch", "add", "analyze", "index add"}

\* C15: fetch_and_analyze_jobs never lets an exception escape: whichever
\* step fails, the call returns normally and, once start has run, the
\* scheduler thread is alive to run the next scheduled cycle.
C15_CycleNeverRaises ==
    call.op \in {"start", "periodic"} =>
        /\ call.result = "None"
        /\ running /\ "bg" \in live

C15_Witness ==
    /\ call.op = "periodic" /\ call.step = "done"
    /\ call.failed = CycleSteps
    /\ "bg" \in live

(***************************************************************************)
(* collector/rss_client.py: _fetch_full_content and its three strategies.  *)
(* A text is [by, len]: who extracted it and how many characters it has.   *)
(* A strategy's outcome is [result, text]; result is "raise" only if an    *)
(* exception leaves the strategy.                                          *)
(***************************************************************************)
JinaLimit == 8000
Bs4Limit == 8000
BasicLimit == 5000
SubstantialLen == 200
StatusOk == 200
\* a status code other than 200
OtherStatus == StatusOk + 1

EmptyText == [by |-> "nobody", len |-> 0]
\* text[:limit]
truncate(text, limit) == IF text.len > limit THEN [text EXCEPT !.len = limit] ELSE text
\* the truth value of a str
nonempty(text) == text.len > 0

\* A bug _fetch_with_jina could have: no try around the request.
fetch_with_jina_uncaught(http) ==
    IF http.kind = "raise" THEN [result |-> "raise", text |-> EmptyText]
    ELSE IF http.status = StatusOk
    THEN [result |-> "returned", text |-> truncate([by |-> "jina", len |-> http.len], JinaLimit)]
    ELSE [result |-> "returned", text |-> EmptyText]

\* _fetch_with_jina. http: what GET https://r.jina.ai/{url} gives.
fetch_with_jina(http) ==
    IF http.kind = "raise" THEN [result |-> "returned", text |-> EmptyText]
    ELSE IF http.status = StatusOk
    THEN [result |-> "returned", text |-> truncate([by |-> "jina", len |-> http.len], JinaLimit)]
    ELSE [result |-> "returned", text |-> EmptyText]

\* The first of the selected elements whose text is longer than 200.
RECURSIVE first_substantial(_, _)
first_substantial(selected, k) ==
    IF k > Len(selected) THEN 0
    ELSE IF selected[k] > SubstantialLen THEN k
    ELSE first_substantial(selected, k + 1)

\* _fetch_with_enhanced_bs4. http: what GET url gives, parsed: selected are
\* the lengths of the texts of the elements the selectors find, in the
\* selectors' order, body the length of the whole page's text. The status
\* code is not looked at.
fetch_with_enhanced_bs4(http) ==
    IF http.kind = "raise" THEN [result |-> "returned", text |-> EmptyText]
    ELSE LET k == first_substantial(http.selected, 1) IN
         IF k > 0
         THEN [result |-> "returned",
               text |-> truncate([by |-> "enhanced_bs4", len |-> http.selected[k]], Bs4Limit)]
         ELSE [result |-> "returned",
               text |-> truncate([by |-> "enhanced_bs4", len |-> http.body], Bs4Limit)]

\* _fetch_basic_content. http: what GET url gives, body the length of the
\* page's text.
fetch_basic_content(http) ==
    IF http.kind = "raise" THEN [result |-> "returned", text |-> EmptyText]
    ELSE [result |-> "returned",
          text |-> truncate([by |-> "basic", len |-> http.body], BasicLimit)]

\* A bug _fetch_full_content could have: the structured strategy tried first.
fetch_full_content_bs4_first(url, jina, bs4, basic) ==
    IF url = "" THEN [result |-> "returned", text |-> EmptyText, invoked |-> <<>>]
    ELSE LET s2 == fetch_with_enhanced_bs4(bs4) IN
         IF nonempty(s2.text)
         THEN [result |-> "returned", text |-> s2.text, invoked |-> <<"enhanced_bs4">>]
         ELSE LET s1 == fetch_with_jina(jina) IN
              IF nonempty(s1.text)
              THEN [result |-> "returned", text |-> s1.text,
                    invoked |-> <<"enhanced_bs4", "jina">>]
              ELSE LET s3 == fetch_basic_content(basic) IN
                   [result |-> s3.result, text |-> s3.text,
                    invoked |-> <<"enhanced_bs4", "jina", "basic">>]

\* _fetch_full_content. jina, bs4, basic: what the request of each strategy
\* would give. invoked lists the strategies called, in order.
fetch_full_content(url, jina, bs4, basic) ==
    IF url = "" THEN [result |-> "returned", text |-> EmptyText, invoked |-> <<>>]
    ELSE LET s1 == fetch_with_jina(jina) IN
         IF s1.result = "raise"
         THEN [result |-> "raise", text |-> EmptyText, invoked |-> <<"jina">>]
         ELSE IF nonempty(s1.text)
         THEN [result |-> "returned", text |-> s1.text, invoked |-> <<"jina">>]
         ELSE LET s2 == fetch_with_enhanced_bs4(bs4) IN
              IF s2.result = "raise"
              THEN [result |-> "raise", text |-> EmptyText,
                    invoked |-> <<"jina", "enhanced_bs4">>]
              ELSE IF nonempty(s2.text)
              THEN [result |-> "returned", text |-> s2.text,
                    invoked |-> <<"jina", "enhanced_bs4">>]
              ELSE LET s3 == fetch_basic_content(basic) IN
                   [result |-> s3.result, text |-> s3.text,
                    invoked |-> <<"jina", "enhanced_bs4", "basic">>]

(***************************************************************************)
(* SpecContent: _fetch_full_content on every url and every combination of  *)
(* what the three requests give.                                           *)
(***************************************************************************)
Urls == {"", "u"}
TextLens == {0, SubstantialLen, SubstantialLen + 1, Bs4Limit + 1}
JinaOutcomes ==
    {[kind |-> "raise"]}
    \cup {[kind |-> "response", status |-> s, len |-> n] :
            s \in {StatusOk, OtherStatus}, n \in TextLens}
Bs4Outcomes ==
    {[kind |-> "raise"]}
    \cup {[kind |-> "response", status |-> s, selected |-> sel, body |-> n] :
            s \in {StatusOk, OtherStatus},
            sel \in {<<>>} \cup {<<m>> : m \in TextLens \ {0}}, n \in TextLens}
BasicOutcomes ==
    {[kind |-> "raise"]}
    \cup {[kind |-> "response", status |-> s, body |-> n] :
            s \in {StatusOk, OtherStatus}, n \in TextLens}

InitContent ==
    /\ StoreIdle /\ IndexIdle /\ ConfigIdle /\ ThreadsIdle
    /\ IdIdle /\ GateIdle /\ FilterIdle
    /\ \E url \in Urls, jina \in JinaOutcomes, bs4 \in Bs4Outcomes, basic \in BasicOutcomes :
            call = [op |-> "input", url |-> url, jina |-> jina, bs4 |-> bs4, basic |-> basic]

FetchFullContent ==
    /\ call.op = "input"
    /\ call' = [call EXCEPT !.op = "fetch_full_content"]
                @@ fetch_full_content(call.url, call.jina, call.bs4, call.basic)

NextContent == FetchFullContent

SpecContent ==
    InitContent /\ [][NextContent /\ UNCHANGED <<rows, index, documents, disk, idq, gate, tf,
                                                 running, live, pc, op, loc, nops, cfg>>]_vars

\* What the three strategies return for the inputs of a call, in the order
\* remote extraction, structured HTML, unstructured.
StrategyTexts(c) ==
    <<fetch_with_jina(c.jina).text, fetch_with_enhanced_bs4(c.bs4).text,
      fetch_basic_content(c.basic).text>>
StrategyNames == <<"jina", "enhanced_bs4", "basic">>

\* C16: _fetch_full_content never raises; it returns empty text when the
\* url is empty (no strategy invoked) or when every strategy fails, and
\* otherwise the text of the first strategy, in the order remote
\* extraction, structured HTML, unstructured, that gave non-empty text,
\* with no later strategy invoked.
C16_FirstNonEmptyStrategy ==
    call.op = "fetch_full_content" =>
        LET texts == StrategyTexts(call)
            good == {k \in 1..3 : nonempty(texts[k])}
        IN  /\ call.result = "returned"
            /\ call.url = "" => (call.text = EmptyText /\ call.invoked = <<>>)
            /\ (call.url # "" /\ good = {}) =>
                    (~nonempty(call.text) /\ call.invoked = StrategyNames)
            /\ (call.url # "" /\ good # {}) =>
                    LET k == CHOOSE i \in good : \A j \in good : i <= j IN
                    /\ call.text = texts[k]
                    /\ call.invoked = SubSeq(StrategyNames, 1, k)

C16_Witness ==
    /\ call.op = "fetch_full_content"
    /\ call.url = "u"
    /\ call.jina = [kind |-> "response", status |-> OtherStatus, len |-> SubstantialLen]
    /\ call.bs4.kind = "response" /\ call.bs4.status = StatusOk
    /\ call.bs4.selected = <<SubstantialLen + 1>>
    /\ call.basic.kind = "response" /\ call.basic.body = SubstantialLen
    /\ call.text = [by |-> "enhanced_bs4", len |-> SubstantialLen + 1]
    /\ call.invoked = <<"jina", "enhanced_bs4">>

\* C35: the structured HTML strategy yields a text only when it is longer
\* than 200 characters; when no selected element has more than 200
\* characters of text it yields the empty text and the chain goes on to the
\* unstructured fallback; and every text _fetch_full_content returns has at
\* most 8000 characters, at most 5000 when the unstructured fallback gave it.
C35_SubstantialOrEmpty ==
    call.op = "fetch_full_content" =>
        /\ call.text.by = "enhanced_bs4" => call.text.len > SubstantialLen
        /\ ("enhanced_bs4" \in Range(call.invoked) /\ call.bs4.kind = "response"
            /\ first_substantial(call.bs4.selected, 1) = 0) =>
                "basic" \in Range(call.invoked)
        /\ call.text.len <= Bs4Limit
        /\ call.text.by = "basic" => call.text.len <= BasicLimit

(***************************************************************************)
(* collector/rss_client.py: _detect_provider. An environment variable is   *)
(* [set, value]; get_env gives its value, or None when it is not set, and  *)
(* the code asks for the truth value of that: set and not ''.              *)
(***************************************************************************)
Unset == [set |-> FALSE, value |-> ""]
\* if config_loader.get_env(KEY):
env_truthy(v) == v.set /\ v.value # ""

\* A bug _detect_provider could have: the environment looked at first.
detect_provider_env_first(rss_mode, miniflux_url, freshrss_url) ==
    IF env_truthy(miniflux_url) THEN "miniflux"
    ELSE IF env_truthy(freshrss_url) THEN "freshrss"
    ELSE IF rss_mode \in {"miniflux", "freshrss"} THEN rss_mode
    ELSE "direct"

\* _detect_provider. rss_mode is the value of the key in config.yaml, or
\* "absent"; config.get('rss_mode', 'auto') makes 'auto' of the latter.
detect_provider(rss_mode, miniflux_url, freshrss_url) ==
    LET mode == IF rss_mode = "absent" THEN "auto" ELSE rss_mode IN
    IF mode = "direct" THEN "direct"
    ELSE IF mode = "miniflux" THEN "miniflux"
    ELSE IF mode = "freshrss" THEN "freshrss"
    ELSE IF mode = "auto"
    THEN IF env_truthy(miniflux_url) THEN "miniflux"
         ELSE IF env_truthy(freshrss_url) THEN "freshrss"
         ELSE "direct"
    ELSE "direct"

(***************************************************************************)
(* SpecProvider: a process with its environment, the rss_mode of its       *)
(* config.yaml, and rss_client.provider, set by __init__ and by every      *)
(* reload_config; the settings page saves another rss_mode.                *)
(***************************************************************************)
RssModes == {"absent", "auto", "direct", "miniflux", "freshrss", "rss"}
EnvValues == {Unset, [set |-> TRUE, value |-> ""], [set |-> TRUE, value |-> "http://reader"]}

InitProvider ==
    /\ StoreIdle /\ IndexIdle /\ ConfigIdle /\ ThreadsIdle
    /\ IdIdle /\ GateIdle /\ FilterIdle
    /\ \E rss_mode \in RssModes, m \in EnvValues, f \in EnvValues :
            call = [op |-> "input", rss_mode |-> rss_mode, MINIFLUX_URL |-> m,
                    FRESHRSS_URL |-> f, provider |-> "none"]

\* RSSClient.__init__ and reload_config: self.provider = self._detect_provider()
DetectProvider ==
    /\ call' = [call EXCEPT !.op = "detect_provider",
                            !.provider = detect_provider(call.rss_mode, call.MINIFLUX_URL,
                                                         call.FRESHRSS_URL)]

\* "Save RSS Mode": config['rss_mode'] = new_mode
SaveRssMode(new_mode) ==
    /\ call.op # "input"
    /\ call' = [call EXCEPT !.op = "save_rss_mode", !.rss_mode = new_mode]

NextProvider ==
    \/ DetectProvider
    \/ \E new_mode \in {"auto", "direct", "miniflux", "freshrss"} : SaveRssMode(new_mode)

SpecProvider ==
    InitProvider /\ [][NextProvider /\ UNCHANGED <<rows, index, documents, disk, idq, gate, tf,
                                                   running, live, pc, op, loc, nops, cfg>>]_vars

\* C17: the provider depends only on configuration: rss_mode direct,
\* miniflux or freshrss selects that provider whatever the environment
\* holds; rss_mode auto (or absent) selects miniflux if MINIFLUX_URL is set
\* (to a value, not ''), otherwise freshrss if FRESHRSS_URL is set,
\* otherwise direct; and a second evaluation on the same configuration and
\* environment gives the same provider.
C17_ProviderFromConfig ==
    /\ [](call.op = "detect_provider" =>
            /\ call.rss_mode \in {"direct", "miniflux", "freshrss"} =>
                    call.provider = call.rss_mode
            /\ call.rss_mode \in {"auto", "absent"} =>
                    call.provider = IF env_truthy(call.MINIFLUX_URL) THEN "miniflux"
                                    ELSE IF env_truthy(call.FRESHRSS_URL) THEN "freshrss"
                                    ELSE "direct")
    /\ [][(call.op = "detect_provider" /\ call'.op = "detect_provider") =>
                call'.provider = call.provider]_vars

C17_Witness ==
    /\ call.op = "detect_provider"
    /\ call.rss_mode = "direct"
    /\ env_truthy(call.MINIFLUX_URL) /\ env_truthy(call.FRESHRSS_URL)
    /\ call.provider = "direct"

\* C34: an rss_mode other than auto, direct, miniflux and freshrss (the key
\* being present) is not resolved to a provider fetch_entries can fetch with:
\* provider selection ends in a configuration error.
C34_UnsupportedModeRaises ==
    (call.op = "detect_provider"
     /\ call.rss_mode \notin {"absent", "auto", "direct", "miniflux", "freshrss"})
        => call.provider \notin Providers

(***************************************************************************)
(* analysis/vector_store.py: search and semantic_search. hits is what      *)
(* index.search gives for the query: top_k pairs of a score and a 0-based  *)
(* position, the position -1 where the index has no further vector.        *)
(***************************************************************************)
SearchTopK == 20
SearchLimit == 10

\* A bug search could have: the position used as it comes, so that -1 is the
\* last document, as Python indexes; a position past the end raises.
search_unchecked(vectors, docs, hits) ==
    IF Len(vectors) = 0 THEN [result |-> "returned", results |-> <<>>]
    ELSE IF \E k \in 1..Len(hits) : hits[k].idx >= Len(docs) \/ hits[k].idx < 0 - Len(docs)
    THEN [result |-> "IndexError", results |-> <<>>]
    ELSE [result |-> "returned",
          results |-> [k \in 1..Len(hits) |->
                [similarity_score |-> hits[k].score]
                @@ docs[IF hits[k].idx >= 0 THEN hits[k].idx + 1
                        ELSE Len(docs) + hits[k].idx + 1]]]

RECURSIVE search_loop(_, _, _)
\* for score, idx in zip(scores[0], indices[0]): ...
search_loop(docs, hits, k) ==
    IF k > Len(hits) THEN <<>>
    ELSE LET idx == hits[k].idx IN
         (IF idx >= 0 /\ idx < Len(docs)
          THEN <<[similarity_score |-> hits[k].score] @@ docs[idx + 1]>>
          ELSE <<>>)
         \o search_loop(docs, hits, k + 1)

\* search(query, top_k), on the index vectors and the document list docs.
search(vectors, docs, hits) ==
    IF Len(vectors) = 0 THEN [result |-> "returned", results |-> <<>>]
    ELSE [result |-> "returned", results |-> search_loop(docs, hits, 1)]

\* results[:n]
first_n(results, n) == SubSeq(results, 1, IF Len(results) < n THEN Len(results) ELSE n)

\* The truth value of the time_filter argument: not None and not ''.
given(time_filter) == time_filter.given /\ time_filter.label # <<>>

\* A bug semantic_search could have: the cut to 10 made before the filter.
semantic_search_cut_first(vectors, docs, hits, time_filter) ==
    LET r == search(vectors, docs, hits)
        cut == first_n(r.results, SearchLimit)
    IN  [result |-> r.result, candidates |-> r.results,
         results |-> IF given(time_filter) THEN apply_time_filter(cut, time_filter.label)
                     ELSE cut]

\* semantic_search(user_query, time_filter); hits is what the lookup with
\* top_k = 20 gives for the enhanced query.
semantic_search(vectors, docs, hits, time_filter) ==
    LET r == search(vectors, docs, hits)
        filtered == IF given(time_filter) THEN apply_time_filter(r.results, time_filter.label)
                    ELSE r.results
    IN  [result |-> r.result, candidates |-> r.results,
         results |-> first_n(filtered, SearchLimit)]

(***************************************************************************)
(* SpecSearch: a VectorStore with some vectors and documents, as loaded    *)
(* from its two files, and searches on it. The nearest-neighbour lookup is *)
(* given by a ranking of the vectors.                                      *)
(***************************************************************************)
\* How many vectors the index file held, and by how many the document file
\* was shorter.
VectorCounts == {0, 1, 2, SearchLimit + 1, SearchTopK + 1}
MissingDocs == {0, 1}
\* Which documents are older than every cutoff: none, all, every second, or
\* the documents carry no date.
AgePatterns == {"recent", "old", "mixed", "no date"}
Rankings == {"first added first", "last added first"}
TopKs == {1, 2, SearchTopK}
TimeFilters ==
    {[given |-> FALSE, label |-> <<>>], [given |-> TRUE, label |-> <<>>],
     [given |-> TRUE, label |-> LabelPast3Months], [given |-> TRUE, label |-> LabelAllTime]}

SearchDoc(k, pattern) ==
    [id |-> k,
     published |->
        CASE pattern = "recent" -> [kind |-> "date", at |-> Now]
          [] pattern = "old" -> [kind |-> "date", at |-> DaysAgo(Days1Year) - 1]
          [] pattern = "mixed" -> [kind |-> "date",
                                   at |-> IF k % 2 = 1 THEN DaysAgo(Days1Year) - 1 ELSE Now]
          [] pattern = "no date" -> [kind |-> "no date", at |-> 0]]

\* index.search(query_embedding, top_k) on an index of ntotal vectors.
lookup(ntotal, ranking, top_k) ==
    [k \in 1..top_k |->
        IF k > ntotal THEN [score |-> 0 - top_k, idx |-> 0 - 1]
        ELSE [score |-> 0 - k,
              idx |-> IF ranking = "first added first" THEN k - 1 ELSE ntotal - k]]

InitSearch ==
    /\ StoreIdle /\ ConfigIdle /\ ThreadsIdle /\ CallIdle
    /\ IdIdle /\ GateIdle /\ FilterIdle
    /\ disk = NoFiles
    /\ \E n \in VectorCounts, missing \in MissingDocs, pattern \in AgePatterns :
        /\ missing <= n
        /\ index = [k \in 1..n |-> encode(k)]
        /\ documents = [k \in 1..(n - missing) |-> SearchDoc(k, pattern)]

Search(top_k, ranking) ==
    /\ LET hits == lookup(Len(index), ranking, top_k) IN
       call' = [op |-> "search", top_k |-> top_k, hits |-> hits]
               @@ search(index, documents, hits)
    /\ UNCHANGED <<index, documents>>

SemanticSearch(time_filter, ranking) ==
    /\ LET hits == lookup(Len(index), ranking, SearchTopK) IN
       call' = [op |-> "semantic_search", time_filter |-> time_filter, hits |-> hits]
               @@ semantic_search(index, documents, hits, time_filter)
    /\ UNCHANGED <<index, documents>>

NextSearch ==
    \/ \E top_k \in TopKs, ranking \in Rankings : Search(top_k, ranking)
    \/ \E time_filter \in TimeFilters, ranking \in Rankings : SemanticSearch(time_filter, ranking)

SpecSearch ==
    InitSearch /\ [][NextSearch /\ UNCHANGED <<rows, disk, idq, gate, tf, running, live, pc,
                                               op, loc, nops, cfg>>]_vars

\* The positions of hits that are positions of the document list.
ValidHits(hits) == {k \in 1..Len(hits) : hits[k].idx >= 0 /\ hits[k].idx < Len(documents)}

\* C18: search returns an empty list when the index holds no vectors, and
\* otherwise at most top_k results, each a copy of the document at a valid
\* position of the document list with a similarity score added; a position
\* that is negative or >= len(documents) gives no result and no error.
C18_SearchResults ==
    call.op = "search" =>
        /\ call.result = "returned"
        /\ Len(index) = 0 => call.results = <<>>
        /\ Len(call.results) <= call.top_k
        /\ Len(index) > 0 => Len(call.results) = Cardinality(ValidHits(call.hits))
        /\ \A j \in 1..Len(call.results) :
                \E k \in ValidHits(call.hits) :
                    /\ call.results[j] =
                            [similarity_score |-> call.hits[k].score]
                            @@ documents[call.hits[k].idx + 1]
                    /\ Cardinality({i \in ValidHits(call.hits) : i < k}) = j - 1

C18_Witness ==
    /\ call.op = "search" /\ call.top_k = SearchTopK
    /\ Len(index) = 2 /\ Len(documents) = 1
    /\ call.hits[1].idx = 1 /\ call.hits[2].idx = 0 /\ call.hits[3].idx = 0 - 1
    /\ Len(call.results) = 1 /\ call.results[1].id = 1

\* The candidates a semantic search's time filter lets through, in order.
Passing(c) ==
    IF given(c.time_filter) THEN apply_time_filter(c.candidates, c.time_filter.label)
    ELSE c.candidates

\* C19: semantic_search returns at most 10 results: exactly the first
\* up-to-10, in search order, of the top-20 search candidates that pass the
\* time filter (all candidates when there is no time filter).
C19_FirstTenPassing ==
    call.op = "semantic_search" =>
        /\ Len(call.hits) = SearchTopK
        /\ call.candidates = search(index, documents, call.hits).results
        /\ Len(call.results) <= SearchLimit
        /\ Len(call.results) = IF Len(Passing(call)) < SearchLimit THEN Len(Passing(call))
                               ELSE SearchLimit
        /\ \A j \in 1..Len(call.results) : call.results[j] = Passing(call)[j]

C19_Witness ==
    /\ call.op = "semantic_search"
    /\ call.time_filter = [given |-> TRUE, label |-> LabelPast3Months]
    /\ Len(call.candidates) = SearchTopK
    /\ Len(call.results) = SearchLimit
    /\ call.results[1].id = 2 /\ call.results[SearchLimit].id = SearchTopK

(***************************************************************************)
(* SpecDirect: _fetch_direct on a list of configured feeds, some of which  *)
(* fail (the request or the parse raises), on a store that holds nothing   *)
(* or the first posting.                                                   *)
(***************************************************************************)
MaxFeeds == 3
FeedNames == <<"s1", "s2", "s3", "s4">>
\* What the source of one feed does: it fails, or lists these postings.
FeedAnswers ==
    {[kind |-> "fails", ps |-> <<>>]}
    \cup {[kind |-> "lists", ps |-> ps] : ps \in {<<>>, <<1>>, <<1, 2>>}}

\* The k-th configured feed with what its source did.
NamedFeed(k, answer) ==
    IF answer.kind = "fails" THEN [FailedFeed EXCEPT !.config.name = FeedNames[k]]
    ELSE [DirectFeed(answer.ps) EXCEPT !.config.name = FeedNames[k]]

FeedLists ==
    UNION {{[k \in 1..n |-> NamedFeed(k, answers[k])] : answers \in [1..n -> FeedAnswers]}
           : n \in 0..MaxFeeds}

\* The store after the first posting was inserted from a direct feed.
FirstPostingStored ==
    add_job_entry(<<>>, direct_entry_data(DirectFeed(<<1>>).entries[1],
                                          DirectFeed(<<1>>).config, ""), FALSE).rows

InitDirect ==
    /\ IndexIdle /\ ConfigIdle /\ ThreadsIdle
    /\ IdIdle /\ GateIdle /\ FilterIdle
    /\ rows \in {<<>>, FirstPostingStored}
    /\ \E feeds \in FeedLists : call = [op |-> "input", feeds |-> feeds]

FetchDirect ==
    /\ call.op = "input"
    /\ LET ran(r) == call' = [op |-> "fetch_direct", feeds |-> call.feeds,
                               result |-> r.result, entries |-> r.entries]
       IN  ran(provider_fetch(State, "direct",
                              [NoCycleEnv EXCEPT !.src = [kind |-> "feeds",
                                                          feeds |-> call.feeds]]))
    /\ UNCHANGED rows

NextDirect == FetchDirect

SpecDirect ==
    InitDirect /\ [][NextDirect /\ UNCHANGED <<index, documents, disk, idq, gate, tf, running,
                                               live, pc, op, loc, nops, cfg>>]_vars

\* The entries of a result that come from the feed of this name, in order.
FromFeed(entries, name) == SelectSeq(entries, LAMBDA e : e.source = name)

\* The postings of a feed the store does not hold yet.
Candidates(feed) ==
    SelectSeq(feed.entries, LAMBDA e : ~is_job_already_processed(rows, e.title, e.link))

\* C20: for any list of configured feeds and any subset of them that fails,
\* _fetch_direct does not raise, returns no entry of a failing feed, and
\* returns the candidate entries of every other feed, wherever the failing
\* feeds stand in the list.
C20_FailingFeedsSkipped ==
    call.op = "fetch_direct" =>
        /\ call.result # "raise"
        /\ \A k \in 1..Len(call.feeds) :
            LET feed == call.feeds[k]
                got == FromFeed(call.entries, feed.config.name)
            IN  IF feed.kind = "raise" THEN got = <<>>
                ELSE /\ Len(got) = Len(Candidates(feed))
                     /\ \A j \in 1..Len(got) :
                            /\ got[j].title = Candidates(feed)[j].title
                            /\ got[j].link = Candidates(feed)[j].link
        /\ \A j \in 1..Len(call.entries) :
                \E k \in 1..Len(call.feeds) : call.entries[j].source = call.feeds[k].config.name

C20_Witness ==
    /\ call.op = "fetch_direct"
    /\ rows = FirstPostingStored
    /\ Len(call.feeds) = 3
    /\ call.feeds[1].kind = "raise" /\ call.feeds[3].kind = "raise"
    /\ call.feeds[2] = NamedFeed(2, [kind |-> "lists", ps |-> <<1, 2>>])
    /\ Len(call.entries) = 1
    /\ call.entries[1].title = Posting(2).title /\ call.entries[1].source = FeedNames[2]

(***************************************************************************)
(* SpecPoll: cycles of the Miniflux provider, one after the other, on a    *)
(* server that answers GET /v1/entries with what it holds after the        *)
(* 'after' parameter, newest first; between them cycles of the direct      *)
(* provider on the same postings (rss_mode changed). The analysis of a     *)
(* cycle meets no failure; the save of the watermark and the insertions    *)
(* can fail.                                                               *)
(***************************************************************************)
\* What the server can hold, newest first.
HeldLists == {<<>>, <<1>>, <<2>>, <<2, 1>>}

\* GET /v1/entries with params: the entries published after last_fetch, all
\* of them when last_fetch is None or ''.
miniflux_entries(held, last_fetch) ==
    MinifluxResponse(Filter(held, {k \in Range(held) :
                                     ~truthy(last_fetch) \/ Posting(k).published > last_fetch}))

\* The analysis of a cycle in which nothing fails, whatever is pending.
PollPending(n) ==
    [query_ok |-> TRUE, outs |-> [k \in 1..n |-> "ok"], text |-> "analysis",
     add |-> "ok", save |-> "saved"]

\* What the gate answered for entry k of a poll: the link it is given is
\* entry.get('link', ''), so no record is looked up.
PollVerdict(c, k) == quick_relevance_check(<<>>, c.resp[k].title, <<>>, c.llms[k])

\* A cycle with the Miniflux provider. call keeps what the poll was asked
\* and answered, what the gate was asked about (scored), whose content was
\* fetched (fetched), what _fetch_miniflux returned (candidates, poll) and
\* where the cycle ended.
PollCycle(held, llms, save_ok, fault_at) ==
    LET last_fetch == cfg.file.last_miniflux_fetch
        resp == miniflux_entries(held, last_fetch)
        env == [NoCycleEnv EXCEPT !.provider = "miniflux", !.src = resp, !.llms = llms,
                                  !.save_config = save_ok, !.fault_at = fault_at,
                                  !.pending = PollPending(Len(rows) + Len(resp.entries))]
        ran(r, p) ==
            /\ SetState(r)
            /\ call' = [op |-> "poll", last_fetch |-> last_fetch, resp |-> resp.entries,
                        llms |-> llms, scored |-> p.scored, fetched |-> p.fetched,
                        candidates |-> p.entries, poll |-> p.result,
                        step |-> r.step, new_count |-> r.new_count]
    IN  /\ ran(fetch_and_analyze_jobs(State, env),
               fetch_miniflux(rows, load_config(clear_config(cfg)), resp, llms, save_ok))
        /\ UNCHANGED <<running, live>>

\* A cycle with the direct provider on a feed that lists held.
DirectCycle(held) ==
    LET env == [NoCycleEnv EXCEPT
                    !.src = [kind |-> "feeds", feeds |-> <<DirectFeed(held)>>],
                    !.pending = PollPending(Len(rows) + Len(held))]
        ran(r) ==
            /\ SetState(r)
            /\ call' = [op |-> "direct", step |-> r.step, new_count |-> r.new_count]
    IN  /\ ran(fetch_and_analyze_jobs(State, env))
        /\ UNCHANGED <<running, live>>

NextPoll ==
    \/ \E held \in HeldLists, save_ok \in BOOLEAN :
         \E llms \in [1..Len(miniflux_entries(held, cfg.file.last_miniflux_fetch).entries)
                        -> GateAnswers] :
            \E fault_at \in 0..Len(llms) : PollCycle(held, llms, save_ok, fault_at)
    \/ \E held \in HeldLists : DirectCycle(held)

SpecPoll ==
    InitSys /\ [][NextPoll /\ UNCHANGED <<idq, gate, tf, pc, op, loc, nops>>]_vars

\* The greatest of a set of timestamps that holds the previous watermark.
StampMax(S) == CHOOSE m \in S : \A x \in S : x <= m

\* C27: after a Miniflux poll that returned, the watermark in config.yaml is
\* the greatest of the previous watermark and the published_at of every
\* entry the endpoint returned, those the gate rejected and those skipped as
\* already stored included.
C27_WatermarkIsMax ==
    (call.op = "poll" /\ call.poll = "returned") =>
        cfg.file.last_miniflux_fetch =
            StampMax({call.last_fetch}
                     \cup {call.resp[k].published_at : k \in 1..Len(call.resp)})

\* C28: in a Miniflux poll the content of an entry is fetched only if the
\* gate was asked about the entry in that poll and answered relevant, with a
\* score of at least 6, and never for an entry the store already held; and
\* every candidate _fetch_miniflux returns is such an entry.
C28_GateBeforeContent ==
    [][call'.op = "poll" =>
          /\ \A k \in Range(call'.fetched) :
                /\ k \in Range(call'.scored)
                /\ PollVerdict(call', k).relevant
                /\ PollVerdict(call', k).score >= RelevanceThreshold
                /\ ~is_job_already_processed(rows, call'.resp[k].title, call'.resp[k].url)
          /\ \A j \in 1..Len(call'.candidates) :
                \E k \in Range(call'.fetched) :
                    /\ call'.candidates[j].title = call'.resp[k].title
                    /\ call'.candidates[j].link = call'.resp[k].url]_vars

\* A poll was answered two entries: the gate rejected the first, and the
\* content of the second alone was fetched.
C28_Witness ==
    /\ call.op = "poll" /\ call.poll = "returned"
    /\ Len(call.resp) = 2
    /\ call.scored = <<1, 2>> /\ call.fetched = <<2>>
    /\ Len(call.candidates) = 1

\* The identity of entry k of the poll c describes.
PollId(c, k) == generate_job_id(c.resp[k].title, c.resp[k].url)

\* C29: when a cycle of the Miniflux provider has inserted an entry the gate
\* scored s >= 6, the record holds relevance_score = s, and a relevance
\* check for its title and URL answers from the record without a call of
\* the scoring service.
C29_ScoreCached ==
    call.op = "poll" =>
        \A k \in Range(call.fetched) :
            exists_id(rows, PollId(call, k)) =>
                /\ RowOf(PollId(call, k)).relevance_score = PollVerdict(call, k).score
                /\ \A llm \in GateAnswers :
                      quick_relevance_check(rows, call.resp[k].title, call.resp[k].url,
                                            llm).llm_calls = 0

\* C30: when a cycle of the Miniflux provider has ended, every entry its
\* poll judged relevant whose timestamp is at or below the watermark in
\* config.yaml is in the store, or a later poll, asked for the entries after
\* that watermark, returns it again.
C30_NoRelevantLost ==
    call.op = "poll" =>
        \A k \in Range(call.fetched) :
            call.resp[k].published_at <= cfg.file.last_miniflux_fetch =>
                \/ exists_id(rows, PollId(call, k))
                \/ \E held \in HeldLists :
                      call.resp[k] \in
                          Range(miniflux_entries(held, cfg.file.last_miniflux_fetch).entries)

(***************************************************************************)
(* analysis/llm_client.py: the analysis call                               *)
(***************************************************************************)
\* What the analysis service does with a request: it answers, the
\* connection fails, the request times out, or the answer is not 2xx.
ServiceOutcomes == {"ok", "network", "timeout", "status"}
\* f"Error calling Ollama: {e}", one text for every exception e
OllamaError == "Error calling Ollama"
LlmProviders == {"ollama", "openai", "anthropic", "other"}

\* A bug _call_ollama could have: no try around the request.
call_ollama_uncaught(svc) ==
    IF svc = "ok" THEN [kind |-> "text", text |-> "analysis"]
    ELSE [kind |-> "raise", text |-> "None"]

\* _call_ollama:
\*   try: response = requests.post(url, json=data, timeout=60)
\*        response.raise_for_status(); return response.json()['response']
\*   except Exception as e: return f"Error calling Ollama: {e}"
call_ollama(svc) ==
    IF svc = "ok" THEN [kind |-> "text", text |-> "analysis"]
    ELSE [kind |-> "text", text |-> OllamaError]

\* analyze_job_posting: return self._call_llm(prompt); _call_llm dispatches
\* on the configured provider and raises ValueError for one it does not know.
\* _call_openai and _call_anthropic return their own error text the same way.
analyze_job_posting(provider, svc) ==
    CASE provider = "ollama" -> call_ollama(svc)
      [] provider \in {"openai", "anthropic"} ->
            IF svc = "ok" THEN [kind |-> "text", text |-> "analysis"]
            ELSE [kind |-> "text", text |-> "Error calling"]
      [] OTHER -> [kind |-> "raise", text |-> "None"]

(***************************************************************************)
(* SpecLlm: the handlers of SpecSeq, the analysis of a job being what      *)
(* analyze_job_posting returns for what the analysis service did.          *)
(***************************************************************************)
\* One turn of the loop of analyze_pending_jobs, lines 85-92: the call of
\* the client, then update_analysis_result, whose commit succeeds or not.
LlmAnalyze(provider, svc, commit_ok) ==
    LET turn(r) == Analyze("api", IF r.kind = "raise" THEN "llm"
                                  ELSE IF commit_ok THEN "ok" ELSE "update", r.text)
    IN  turn(analyze_job_posting(provider, svc))

NextLlm ==
    \/ ForceFetch
    \/ AnalyzePending
    \/ Reload("api", TRUE)
    \/ \E feed \in FeedContents : Fetch("api", "direct", feed)
    \/ AddCheck("api")
    \/ AddCommit("api", FALSE)
    \/ Pending("api")
    \/ \E provider \in LlmProviders, svc \in ServiceOutcomes, commit_ok \in BOOLEAN :
            LlmAnalyze(provider, svc, commit_ok)
    \/ \E outcome \in AddOutcomes : VsAdd("api", outcome, "saved")

SpecLlm == InitConc /\ [][NextLlm]_vars

\* The job the loop of the API thread's pass is at.
JobAtHand == loc["api"].unanalyzed[loc["api"].i]
Indexed(docs, job_id, text) ==
    \E j \in 1..Len(docs) : docs[j].id = job_id /\ docs[j].analysis = text

\* C33: when the call of the analysis service fails inside _call_ollama
\* (network error, timeout, non-2xx), the turn of analyze_pending_jobs goes
\* on as after an answer: the error text is stored as analysis_result with
\* analyzed = true and the job is collected for the VectorStore; the
\* add_job_entries of that pass, when it returns, has added every collected
\* job with the text its record holds; and a record that holds the error
\* text is analyzed, so no later get_unanalyzed_entries returns it.
C33_ErrorTextIsAnalysis ==
    [][/\ \A svc \in ServiceOutcomes \ {"ok"} :
            LlmAnalyze("ollama", svc, TRUE) =>
                /\ rows'[first_by_id(rows', JobAtHand)].analyzed
                /\ rows'[first_by_id(rows', JobAtHand)].analysis_result = OllamaError
                /\ loc'["api"].analyzed_jobs = Append(loc["api"].analyzed_jobs, JobAtHand)
       /\ VsAdd("api", "ok", "saved") =>
            \A k \in 1..Len(loc["api"].analyzed_jobs) :
                Indexed(documents', loc["api"].analyzed_jobs[k],
                        RowOf(loc["api"].analyzed_jobs[k]).analysis_result)
       /\ \A i \in 1..Len(rows') :
            rows'[i].analysis_result = OllamaError =>
                rows'[i].analyzed /\ rows'[i].id \notin Range(unanalyzed_ids(rows'))]_vars

\* A pass has stored the error text for a record and added it to the index.
C33_Witness ==
    \E i \in 1..Len(rows) :
        /\ rows[i].analyzed /\ rows[i].analysis_result = OllamaError
        /\ Indexed(documents, rows[i].id, OllamaError)
        /\ pc["api"] = "idle"

(***************************************************************************)
(* SpecStop: start() and stop() called one after the other on one          *)
(* JobScheduler, and the loop threads start() creates. Here live is the    *)
(* set of the loop threads that have not left _run_scheduler, numbered in  *)
(* the order of their creation; call.asleep are those of them inside       *)
(* time.sleep(60), call.jobs counts the periodic fetch jobs the schedule   *)
(* module holds and call.created the threads created so far.               *)
(***************************************************************************)
MaxThreads == 3

InitStop ==
    /\ StoreIdle /\ IndexIdle /\ ConfigIdle /\ ThreadsIdle
    /\ IdIdle /\ GateIdle /\ FilterIdle
    /\ call = [op |-> "none", jobs |-> 0, created |-> 0, asleep |-> {}, cycles |-> 0]

\* start(), lines 18-39: nothing when running; else running = True, the
\* fetch job is registered, the initial cycle runs and a thread is created.
StopStart(env) ==
    IF running
    THEN /\ call' = [call EXCEPT !.op = "start", !.cycles = 0]
         /\ UNCHANGED <<rows, indexVars, cfg, running, live>>
    ELSE /\ call.created < MaxThreads
         /\ running' = TRUE
         /\ LET ran(r) == SetState(r) IN ran(fetch_and_analyze_jobs(State, env))
         /\ call' = [call EXCEPT !.op = "start", !.jobs = @ + 1, !.created = @ + 1,
                                 !.cycles = 1]
         /\ live' = live \cup {call.created + 1}

\* stop(): self.running = False; schedule.clear()
StopStop ==
    /\ running' = FALSE
    /\ call' = [call EXCEPT !.op = "stop", !.jobs = 0, !.cycles = 0]
    /\ UNCHANGED <<rows, indexVars, cfg, live>>

\* _run_scheduler of thread k at "while self.running": it leaves the loop,
\* or schedule.run_pending() runs the registered job if it is due and the
\* thread goes to sleep.
StopLoopPass(k, due, env) ==
    /\ k \in live /\ k \notin call.asleep
    /\ IF ~running
       THEN /\ live' = live \ {k}
            /\ call' = [call EXCEPT !.op = "exit", !.cycles = 0]
            /\ UNCHANGED <<rows, indexVars, cfg>>
       ELSE /\ call' = [call EXCEPT !.op = "pass", !.asleep = @ \cup {k},
                                    !.cycles = IF due /\ call.jobs > 0 THEN 1 ELSE 0]
            /\ IF due /\ call.jobs > 0
               THEN LET ran(r) == SetState(r) IN ran(fetch_and_analyze_jobs(State, env))
               ELSE UNCHANGED <<rows, indexVars, cfg>>
            /\ UNCHANGED live
    /\ UNCHANGED running

\* time.sleep(60) of thread k returns.
StopWake(k) ==
    /\ k \in call.asleep
    /\ call' = [call EXCEPT !.op = "wake", !.asleep = @ \ {k}, !.cycles = 0]
    /\ UNCHANGED <<rows, indexVars, cfg, running, live>>

NextStop ==
    \/ \E env \in CycleEnvs(State, LoopLists, FALSE) : StopStart(env)
    \/ StopStop
    \/ \E k \in 1..MaxThreads, due \in BOOLEAN, env \in CycleEnvs(State, LoopLists, FALSE) :
            StopLoopPass(k, due, env)
    \/ \E k \in 1..MaxThreads : StopWake(k)

SpecStop ==
    InitStop /\ [][NextStop /\ UNCHANGED <<idq, gate, tf, pc, op, loc, nops>>]_vars

\* C37: after any sequence of start() and stop() calls at most one loop
\* thread is live and at most one periodic fetch job is registered; and
\* start() on a running scheduler registers nothing, runs no cycle and
\* starts no thread.
C37_OneLoop ==
    /\ [](Cardinality(live) <= 1 /\ call.jobs <= 1)
    /\ [][(running /\ call'.op = "start") =>
            /\ call'.jobs = call.jobs /\ call'.created = call.created
            /\ call'.cycles = 0 /\ live' = live]_vars

====
